---- MODULE Spec2Model ----
(***************************************************************************)
(* Model of the HTB MCP server: the JSON-RPC message model (pkg/mcp), the  *)
(* tool registry and the tools (internal/tools), the backend client        *)
(* (pkg/htb) and the protocol engine (internal/server).                    *)
(*                                                                         *)
(* JSON documents are modelled by their structure.  A value that Go holds  *)
(* in an interface{} is a record tagged by its dynamic type; a member of a *)
(* JSON object is a record tagged "absent" when the member is not there.   *)
(* Formatted texts (fmt.Sprintf, fmt.Errorf) are sequences of their parts. *)
(***************************************************************************)
EXTENDS Integers, Sequences, FiniteSets, TLC

VARIABLES
    state,      \* lifecycle of the process: Uninitialized, Running, ShuttingDown,
                \* Exited, Fatal
    health,     \* the backend's reply to the startup probe (its body is not
                \* read), NoReply before Start
    registry,   \* Registry.tools: tool name -> tool
    loop,       \* processMessages: notStarted, scan, handle, eof, scanError
    nread,      \* number of lines the scanner has consumed
    cur,        \* the line handed to handleMessage (the last one read)
    handled,    \* TRUE once handleMessage has returned for cur
    lastOut,    \* the record handleMessage wrote for cur, NoRecord if none
    output,     \* the output stream: for each record written, the number of its line
    invocation, \* what Registry.ExecuteTool returned while cur was handled:
                \* "none" (not called), "result" or "error"
    invoked,    \* the tools whose Execute ran while cur was handled
    requests,   \* the backend requests made while cur was handled
    lab,        \* a library function applied outside the server: the call,
                \* its arguments and, once it has returned, what it returned
    httpClient, \* Client.httpClient: its Timeout in seconds
    pending,    \* TRUE while httpClient.Do has not returned to a tool
    writable,   \* TRUE while the output stream accepts what is written to it
    logged,     \* TRUE once processMessages has logged an error for cur
    replied,    \* what httpClient.Do returned to the tool run for cur, NoReply
                \* if none asked
    repeats     \* TRUE when cur is, byte for byte, the line read before it

vars == <<state, health, registry, loop, nread, cur, handled, lastOut, output,
          invocation, invoked, requests, lab, httpClient, pending, writable, logged, replied,
                   repeats>>

-----------------------------------------------------------------------------
(* Bounds of the model.                                                    *)

\* Lines the scanner may consume in one run.
MaxLines == 2

-----------------------------------------------------------------------------
(* pkg/mcp/protocol.go: constants.                                         *)

MCPVersion == "2024-11-05"

MethodInitialize == "initialize"
MethodListTools == "tools/list"
MethodCallTool == "tools/call"
MethodListResources == "resources/list"
MethodReadResource == "resources/read"
MethodListPrompts == "prompts/list"
MethodGetPrompt == "prompts/get"

ErrorCodeParseError == -32700
ErrorCodeInvalidRequest == -32600
ErrorCodeMethodNotFound == -32601
ErrorCodeInvalidParams == -32602
ErrorCodeInternalError == -32603

-----------------------------------------------------------------------------
(* Numbers.  A JSON integer literal n is held exactly as two limbs,        *)
(* n = hi * Limb + lo with 0 <= lo < Limb; the model covers 0 <= n < 2^54. *)

Limb == 2^27

\* Significand width of a Go float64.
Float64Bits == 53

\* First hi limb of an integer >= 2^Float64Bits.
BigHi == 2^(Float64Bits - 27)

\* encoding/json decodes a number into an interface{} as a float64
\* (strconv.ParseFloat): exact below 2^53; from 2^53 up to 2^54 the floats
\* are the even integers and an odd literal rounds to the neighbour whose
\* significand is even.  The result is the integer value of that float.
ToFloat64(hi, lo) ==
    IF hi < BigHi \/ lo % 2 = 0 THEN [hi |-> hi, lo |-> lo]
    ELSE IF lo % 4 = 1 THEN [hi |-> hi, lo |-> lo - 1]
    ELSE IF lo + 1 = Limb THEN [hi |-> hi + 1, lo |-> 0]
    ELSE [hi |-> hi, lo |-> lo + 1]

-----------------------------------------------------------------------------
(* JSON members on the wire and Go values in an interface{}.               *)

JAbsent == [t |-> "absent", s |-> "", hi |-> 0, lo |-> 0]
JNull == [t |-> "null", s |-> "", hi |-> 0, lo |-> 0]
JStr(x) == [t |-> "str", s |-> x, hi |-> 0, lo |-> 0]
JNum(h, l) == [t |-> "num", s |-> "", hi |-> h, lo |-> l]

GoNil == [t |-> "nil", s |-> "", hi |-> 0, lo |-> 0]
GoString(x) == [t |-> "string", s |-> x, hi |-> 0, lo |-> 0]
GoFloat64(h, l) == [t |-> "float64", s |-> "", hi |-> h, lo |-> l]

\* json.Unmarshal of a member into a field of type interface{}: an absent
\* member leaves the field nil, null sets it to nil, a string stays a string
\* and a number becomes a float64.
UnmarshalAny(j) ==
    CASE j.t = "str" -> GoString(j.s)
      [] j.t = "num" -> LET f == ToFloat64(j.hi, j.lo) IN GoFloat64(f.hi, f.lo)
      [] OTHER -> GoNil

\* The field without omitempty: a nil interface is written as null.
MarshalNilAsNull(v) ==
    CASE v.t = "string" -> JStr(v.s)
      [] v.t = "float64" -> JNum(v.hi, v.lo)
      [] OTHER -> JNull

\* json.Marshal of an interface{} field tagged omitempty: a nil interface is
\* omitted, everything else is written (0 and "" included); a float64 with
\* an integer value below 1e21 is written as that integer.
MarshalOmitEmpty(v) ==
    CASE v.t = "string" -> JStr(v.s)
      [] v.t = "float64" -> JNum(v.hi, v.lo)
      [] OTHER -> JAbsent

-----------------------------------------------------------------------------
(* pkg/mcp/protocol.go: the message model.                                 *)

\* Keys of a tool's arguments that some tool reads.
ArgKeys == {"status", "per_page", "challenge_id", "flag", "difficulty",
            "machine_id", "query", "type"}

NoArgs == [k \in ArgKeys |-> JAbsent]

\* The "arguments" member of the params: absent, or an object, or a JSON
\* value of another type (t = "str").
ArgsAbsent == [t |-> "absent", m |-> NoArgs]
ArgsObject(m) == [t |-> "obj", m |-> m]
ArgsString == [t |-> "str", m |-> NoArgs]

\* The "params" member of a line as JSON: its shape (absent, null, object,
\* array) and, of an object, the members the handlers decode.
ParamsOf(shape, pv, name, args) ==
    [shape |-> shape, protocolVersion |-> pv, name |-> name, arguments |-> args]
ParamsAbsent == ParamsOf("absent", JAbsent, JAbsent, ArgsAbsent)
ParamsNull == ParamsOf("null", JAbsent, JAbsent, ArgsAbsent)
ParamsArray == ParamsOf("array", JAbsent, JAbsent, ArgsAbsent)
ParamsObject(pv, name, args) == ParamsOf("object", pv, name, args)

\* Message.Params, Message.Result and Message.Error when nil.
NilParams == ParamsOf("nil", JAbsent, JAbsent, ArgsAbsent)
NilResult == [kind |-> "nil"]
NilError == [set |-> FALSE, Code |-> 0, Message |-> "", Data |-> <<>>]

\* type Message struct
MessageOf(id, method, params, result, error) ==
    [JSONRPCVersion |-> "2.0", ID |-> id, Method |-> method, Params |-> params,
     Result |-> result, Error |-> error]

ZeroMessage ==
    [JSONRPCVersion |-> "", ID |-> GoNil, Method |-> "", Params |-> NilParams,
     Result |-> NilResult, Error |-> NilError]

NewRequest(id, method, params) == MessageOf(id, method, params, NilResult, NilError)

NewResponseWithMethod(id, result) ==
    MessageOf(id, "response", NilParams, result, NilError)

NewResponse(id, result) == MessageOf(id, "", NilParams, result, NilError)

NewErrorResponse(id, code, message, data) ==
    MessageOf(id, "", NilParams, NilResult,
              [set |-> TRUE, Code |-> code, Message |-> message, Data |-> data])

NewNotification(method, params) ==
    MessageOf(GoNil, method, params, NilResult, NilError)

\* type Content struct and CreateTextContent.
ZeroContent == [Type |-> "", Text |-> <<>>, MimeType |-> ""]

CreateTextContent(text) == [Type |-> "text", Text |-> text, MimeType |-> ""]

\* A value json.Marshal has no encoding for (a channel, a function).  The
\* data a tool serializes is a decoded JSON document or a plain struct,
\* which json.MarshalIndent always accepts.
Unserializable == "chan int"

\* json.MarshalIndent(data, "", "  "): the indented text of the value.
MarshalIndent(data) ==
    IF data = Unserializable
    THEN [err |-> TRUE, text |-> <<"json: unsupported type: ", data>>]
    ELSE [err |-> FALSE, text |-> <<"json:", data>>]

\* CreateJSONContent: the zero Content and an error when the value has no
\* encoding, else a text block holding the encoding.
CreateJSONContent(data) ==
    IF MarshalIndent(data).err
    THEN [err |-> TRUE,
          text |-> <<"failed to marshal JSON: ">> \o MarshalIndent(data).text,
          content |-> ZeroContent]
    ELSE [err |-> FALSE, text |-> <<>>,
          content |-> [Type |-> "text", Text |-> MarshalIndent(data).text,
                       MimeType |-> "application/json"]]

\* type CallToolResponse struct
CallToolResponse(content, isError) ==
    [kind |-> "CallToolResponse", Content |-> content, IsError |-> isError]

\* json.Marshal(msg): the members of the record written, by the struct tags
\* of Message.  jsonrpc is always written; id, params and result are omitted
\* when the interface is nil, method when it is empty, error when the
\* pointer is nil.
Marshal(msg) ==
    [jsonrpc |-> JStr(msg.JSONRPCVersion),
     id |-> MarshalOmitEmpty(msg.ID),
     method |-> IF msg.Method = "" THEN JAbsent ELSE JStr(msg.Method),
     params |-> IF msg.Params.shape = "nil" THEN ParamsAbsent ELSE msg.Params,
     result |-> msg.Result,
     error |-> msg.Error]

\* A line of input as JSON text: its length in bytes and what it holds.
\*   blank      the empty line
\*   garbage    text that is not JSON
\*   nonobject  a JSON value that is not an object and not null
\*   null       the JSON value null
\*   object     a JSON object with the members of a Message
LineOf(len, k, jsonrpc, id, method, params) ==
    [len |-> len, k |-> k, jsonrpc |-> jsonrpc, id |-> id, method |-> method,
     params |-> params]

\* A member decodes into a Go string field when it is a string; an absent
\* member or null leaves the field empty; any other type is an error.
StringField(j) == IF j.t = "str" THEN j.s ELSE ""
StringFieldOk(j) == j.t \in {"absent", "null", "str"}

\* json.Unmarshal([]byte(line), &msg) with msg a Message; the empty text is
\* no JSON value.
Unmarshal(line) ==
    CASE line.k \in {"blank", "garbage", "nonobject"} -> [err |-> TRUE, msg |-> ZeroMessage]
      [] line.k = "null" -> [err |-> FALSE, msg |-> ZeroMessage]
      [] OTHER ->
           [err |-> ~(StringFieldOk(line.jsonrpc) /\ StringFieldOk(line.method)),
            msg |-> [JSONRPCVersion |-> StringField(line.jsonrpc),
                     ID |-> UnmarshalAny(line.id),
                     Method |-> StringField(line.method),
                     Params |-> IF line.params.shape \in {"absent", "null"}
                                THEN NilParams ELSE line.params,
                     Result |-> NilResult,
                     Error |-> NilError]]

-----------------------------------------------------------------------------
(* pkg/htb/client.go: the backend client.  A reply is what httpClient.Do   *)
(* hands back for one request: a transport failure (a timeout included) or *)
(* an HTTP response with its status, whether it has a Location header, and *)
(* its body (a JSON object, with or without the field asked for, or text   *)
(* that is not a JSON object).                                             *)

\* NewClient: the http.Client is given the configured timeout, in seconds.
NewClient(cfg) == [Timeout |-> cfg.RequestTimeout]

TransportFailure ==
    [kind |-> "transport", status |-> 0, location |-> FALSE, body |-> "none",
     hasField |-> FALSE]
HttpReply(status, location, body, hasField) ==
    [kind |-> "http", status |-> status, location |-> location, body |-> body,
     hasField |-> hasField]
NoReply ==
    [kind |-> "none", status |-> 0, location |-> FALSE, body |-> "none",
     hasField |-> FALSE]

\* Outcomes of a call: an error with its text, or a value.
Failed(text) == [err |-> TRUE, text |-> text, data |-> "<nil>"]
Value(data) == [err |-> FALSE, text |-> <<>>, data |-> data]

\* Client.Request, after httpClient.Do has returned reply.
Request(reply) ==
    IF reply.kind = "transport"
    THEN Failed(<<"failed to execute request: ", "transport error">>)
    ELSE IF reply.status = 302 /\ reply.location
    THEN Failed(<<"HTB token appears invalid or expired">>)
    ELSE IF reply.status = 401
    THEN Failed(<<"unauthorized: HTB token is invalid">>)
    ELSE Value("response")

\* Client.ParseResponse: the body must be a JSON object; the data is the
\* whole object when field is empty and else the member of that name, nil
\* when the object has none.
ParseResponse(reply, field) ==
    IF reply.body # "object"
    THEN Failed(<<"failed to parse JSON response: ", "invalid character">>)
    ELSE IF field = "" THEN Value("body")
    ELSE IF reply.hasField THEN Value("body." \o field)
    ELSE Value("<nil>")

\* Client.GetWithParsing and Client.PostWithParsing.
GetWithParsing(reply, field) ==
    IF Request(reply).err THEN Request(reply) ELSE ParseResponse(reply, field)

PostWithParsing(reply, field) ==
    IF Request(reply).err THEN Request(reply) ELSE ParseResponse(reply, field)

\* Client.HealthCheck: the request must succeed with status 200.
HealthCheckIgnoringStatus(reply) ==
    IF Request(reply).err
    THEN Failed(<<"HTB API health check failed: ">> \o Request(reply).text)
    ELSE Value("ok")

HealthCheck(reply) ==
    IF Request(reply).err
    THEN Failed(<<"HTB API health check failed: ">> \o Request(reply).text)
    ELSE IF reply.status # 200
    THEN Failed(<<"HTB API health check failed with status: ", ToString(reply.status)>>)
    ELSE Value("ok")

\* A backend request as the tools issue it.
Get(endpoint, reply) == [method |-> "GET", endpoint |-> endpoint, reply |-> reply]
Post(endpoint, reply) == [method |-> "POST", endpoint |-> endpoint, reply |-> reply]

-----------------------------------------------------------------------------
(* internal/tools: the tools.                                              *)

\* Outcome of Tool.Execute: (nil, err) or (response, nil), with the backend
\* requests it issued.
ToolFailed(text, reqs) ==
    [err |-> TRUE, text |-> text, resp |-> NilResult, reqs |-> reqs]
ToolReturnedFromCache(content, reqs) ==
    [err |-> FALSE, text |-> <<>>, resp |-> CallToolResponse(<<content>>, FALSE),
     reqs |-> <<>>]

ToolReturned(content, reqs) ==
    [err |-> FALSE, text |-> <<>>, resp |-> CallToolResponse(<<content>>, FALSE),
     reqs |-> reqs]

\* The tail shared by the tools that return the backend's data as JSON:
\* the request's failure is wrapped, the data is serialized.
JSONResultSwallowing(fetched, wrap, reqs) ==
    IF fetched.err THEN ToolFailed(<<wrap>> \o fetched.text, reqs)
    ELSE ToolReturned(CreateJSONContent(fetched.data).content, reqs)

JSONResult(fetched, wrap, reqs) ==
    IF fetched.err THEN ToolFailed(<<wrap>> \o fetched.text, reqs)
    ELSE IF CreateJSONContent(fetched.data).err
    THEN ToolFailed(<<"failed to create JSON content: ">>
                        \o CreateJSONContent(fetched.data).text, reqs)
    ELSE ToolReturned(CreateJSONContent(fetched.data).content, reqs)

\* The tail shared by the flag submissions: the data is formatted with %v.
TextResult(fetched, wrap, prefix, reqs) ==
    IF fetched.err THEN ToolFailed(<<wrap>> \o fetched.text, reqs)
    ELSE ToolReturned(CreateTextContent(<<prefix, fetched.data>>), reqs)

\* args[key].(string) and args[key].(float64)
IsString(args, key) == args[key].t = "string"
IsFloat64(args, key) == args[key].t = "float64"
\* int(f) formatted with %d, for the small numbers the arguments hold
IntText(v) == ToString(v.lo)

ListChallengesExecute(args, reply) ==
    LET status == IF IsString(args, "status") THEN args["status"].s ELSE "active"
        endpoint == IF status = "retired" THEN <<"/challenge/list/retired">>
                    ELSE <<"/challenge/list">>
    IN JSONResult(GetWithParsing(reply, "challenges"), "failed to fetch challenges: ",
                  <<Get(endpoint, reply)>>)

StartChallengeExecute(args, reply) ==
    IF ~IsString(args, "challenge_id")
    THEN ToolFailed(<<"challenge_id is required">>, <<>>)
    ELSE JSONResult(PostWithParsing(reply, ""), "failed to start challenge: ",
                    <<Post(<<"/challenge/", args["challenge_id"].s, "/start">>, reply)>>)

SubmitChallengeFlagExecute(args, reply) ==
    IF ~IsString(args, "challenge_id")
    THEN ToolFailed(<<"challenge_id is required">>, <<>>)
    ELSE IF ~IsString(args, "flag") THEN ToolFailed(<<"flag is required">>, <<>>)
    ELSE IF ~IsFloat64(args, "difficulty")
    THEN ToolFailed(<<"difficulty is required">>, <<>>)
    ELSE TextResult(PostWithParsing(reply, "message"), "failed to submit flag: ",
                    "Flag submission result: ", <<Post(<<"/challenge/own">>, reply)>>)

ListMachinesExecute(args, reply) ==
    LET status == IF IsString(args, "status") THEN args["status"].s ELSE "active"
        perPage == IF IsFloat64(args, "per_page") THEN IntText(args["per_page"])
                   ELSE "20"
        endpoint == IF status = "retired"
                    THEN <<"/machine/list/retired/paginated/?per_page=", perPage,
                           "&sort_by=release-date">>
                    ELSE <<"/machine/paginated/?per_page=", perPage>>
    IN JSONResult(GetWithParsing(reply, "data"), "failed to fetch machines: ",
                  <<Get(endpoint, reply)>>)

StartMachineExecute(args, reply) ==
    IF ~IsFloat64(args, "machine_id")
    THEN ToolFailed(<<"machine_id is required">>, <<>>)
    ELSE JSONResult(PostWithParsing(reply, ""), "failed to start machine: ",
                    <<Post(<<"/machine/play/", IntText(args["machine_id"])>>, reply)>>)

GetMachineIPExecute(args, reply) ==
    LET fetched == GetWithParsing(reply, "info")
        reqs == <<Get(<<"/machine/active">>, reply)>>
    IN IF fetched.err
       THEN ToolFailed(<<"failed to get active machine: ">> \o fetched.text, reqs)
       ELSE IF fetched.data = "<nil>"
       THEN ToolReturned(CreateTextContent(<<"No machine is currently active">>), reqs)
       ELSE JSONResult(fetched, "failed to get active machine: ", reqs)

\* The tool without its check of the flag.
SubmitUserFlagExecuteUnchecked(args, reply) ==
    IF ~IsFloat64(args, "machine_id")
    THEN ToolFailed(<<"machine_id is required">>, <<>>)
    ELSE TextResult(PostWithParsing(reply, "message"), "failed to submit user flag: ",
                    "User flag submission result: ", <<Post(<<"/machine/own">>, reply)>>)

SubmitUserFlagExecute(args, reply) ==
    IF ~IsFloat64(args, "machine_id")
    THEN ToolFailed(<<"machine_id is required">>, <<>>)
    ELSE IF ~IsString(args, "flag") THEN ToolFailed(<<"flag is required">>, <<>>)
    ELSE TextResult(PostWithParsing(reply, "message"), "failed to submit user flag: ",
                    "User flag submission result: ", <<Post(<<"/machine/own">>, reply)>>)

SubmitRootFlagExecute(args, reply) ==
    IF ~IsFloat64(args, "machine_id")
    THEN ToolFailed(<<"machine_id is required">>, <<>>)
    ELSE IF ~IsString(args, "flag") THEN ToolFailed(<<"flag is required">>, <<>>)
    ELSE TextResult(PostWithParsing(reply, "message"), "failed to submit root flag: ",
                    "Root flag submission result: ", <<Post(<<"/machine/own">>, reply)>>)

GetUserProfileExecute(args, reply) ==
    JSONResult(GetWithParsing(reply, "info"), "failed to get user profile: ",
               <<Get(<<"/user/info">>, reply)>>)

GetUserProgressExecute(args, reply) ==
    JSONResult(GetWithParsing(reply, "info"), "failed to get user progress: ",
               <<Get(<<"/user/info">>, reply)>>)

\* The search filters the object by type when the type is not "all"; the
\* data stays a JSON object either way.
SearchContentExecute(args, reply) ==
    IF ~IsString(args, "query") THEN ToolFailed(<<"query is required">>, <<>>)
    ELSE LET searchType == IF IsString(args, "type") THEN args["type"].s ELSE "all"
             fetched == GetWithParsing(reply, "")
             data == IF searchType # "all" /\ ~fetched.err
                     THEN Value("body{" \o searchType \o "}") ELSE fetched
         IN JSONResult(data, "failed to search content: ",
                       <<Get(<<"/search/fetch?query=", args["query"].s>>, reply)>>)

\* fmt.Sprintf("%v", err): the text of the error in one string.
RECURSIVE Sprint(_)
Sprint(text) == IF text = <<>> THEN "" ELSE text[1] \o Sprint(Tail(text))

\* htb.ServerStatus as it is serialized (the version is fixed, the
\* timestamp goes with the uptime).
ServerStatus(status, htbStatus, uptime) ==
    "status:" \o status \o ",htb_api_status:" \o htbStatus \o ",uptime:" \o uptime

\* A status tool that fails when the probe fails.
GetServerStatusExecuteFailing(args, reply, uptime) ==
    LET probe == HealthCheck(reply)
    IN IF probe.err
       THEN ToolFailed(<<"unhealthy: ">> \o probe.text, <<Get(<<"/user/info">>, reply)>>)
       ELSE JSONResult(Value(ServerStatus("running", "healthy", uptime)), "",
                       <<Get(<<"/user/info">>, reply)>>)

\* The status tool reports a failed probe in its result and never fails;
\* uptime is time.Since(t.startTime) as the clock gives it during the call
\* (the timestamp, read from the same clock, goes with it).
GetServerStatusExecute(args, reply, uptime) ==
    LET probe == HealthCheck(reply)
        htbStatus == IF probe.err THEN "unhealthy: " \o Sprint(probe.text)
                     ELSE "healthy"
    IN JSONResult(Value(ServerStatus("running", htbStatus, uptime)), "",
                  <<Get(<<"/user/info">>, reply)>>)

-----------------------------------------------------------------------------
(* internal/tools: names, descriptions and input schemas.                  *)

NameWithCollision(tool) ==
    CASE tool.type = "ListChallenges" -> "list_challenges"
      [] tool.type = "StartChallenge" -> "start_challenge"
      [] tool.type = "SubmitChallengeFlag" -> "submit_challenge_flag"
      [] tool.type = "ListMachines" -> "list_machines"
      [] tool.type = "StartMachine" -> "start_machine"
      [] tool.type = "GetMachineIP" -> "get_machine_ip"
      [] tool.type = "SubmitUserFlag" -> "submit_user_flag"
      [] tool.type = "SubmitRootFlag" -> "submit_user_flag"
      [] tool.type = "GetUserProfile" -> "get_user_profile"
      [] tool.type = "GetUserProgress" -> "get_user_progress"
      [] tool.type = "SearchContent" -> "search_content"
      [] tool.type = "GetServerStatus" -> "get_server_status"

\* Tool.Name()
Name(tool) ==
    CASE tool.type = "ListChallenges" -> "list_challenges"
      [] tool.type = "StartChallenge" -> "start_challenge"
      [] tool.type = "SubmitChallengeFlag" -> "submit_challenge_flag"
      [] tool.type = "ListMachines" -> "list_machines"
      [] tool.type = "StartMachine" -> "start_machine"
      [] tool.type = "GetMachineIP" -> "get_machine_ip"
      [] tool.type = "SubmitUserFlag" -> "submit_user_flag"
      [] tool.type = "SubmitRootFlag" -> "submit_root_flag"
      [] tool.type = "GetUserProfile" -> "get_user_profile"
      [] tool.type = "GetUserProgress" -> "get_user_progress"
      [] tool.type = "SearchContent" -> "search_content"
      [] tool.type = "GetServerStatus" -> "get_server_status"

\* Tool.Description()
Description(tool) ==
    CASE tool.type = "ListChallenges" ->
           "Get a paginated list of HackTheBox challenges with optional filtering by category, difficulty, and status"
      [] tool.type = "StartChallenge" ->
           "Start a HackTheBox challenge by ID to initialize the challenge environment"
      [] tool.type = "SubmitChallengeFlag" -> "Submit a flag for a HackTheBox challenge"
      [] tool.type = "ListMachines" ->
           "Get a list of HackTheBox machines with optional filtering by status, difficulty, and OS"
      [] tool.type = "StartMachine" ->
           "Start a HackTheBox machine by ID and get connection details"
      [] tool.type = "GetMachineIP" -> "Get the IP address of the currently active machine"
      [] tool.type = "SubmitUserFlag" -> "Submit a user flag for a HackTheBox machine"
      [] tool.type = "SubmitRootFlag" -> "Submit a root flag for a HackTheBox machine"
      [] tool.type = "GetUserProfile" ->
           "Get the authenticated user's profile information including points, rank, and subscription status"
      [] tool.type = "GetUserProgress" ->
           "Get user progress including completed challenges, machines, and achievements"
      [] tool.type = "SearchContent" ->
           "Search across HackTheBox challenges, machines, and users by name or keyword"
      [] tool.type = "GetServerStatus" ->
           "Get MCP server health status and HTB API connectivity information"

\* type Property struct: the type and the enum of a property.
Property(type, enum) == [Type |-> type, Enum |-> enum]

\* type ToolSchema struct
ToolSchemaWithConfirm(properties, required) ==
    [Type |-> "object", Properties |-> properties,
     Required |-> required \o <<"confirm">>]

ToolSchema(properties, required) ==
    [Type |-> "object", Properties |-> properties, Required |-> required]

Difficulties == <<"Easy", "Medium", "Hard", "Insane">>

\* Tool.Schema()
Schema(tool) ==
    CASE tool.type = "ListChallenges" ->
           ToolSchema([category |-> Property("string", <<>>),
                       difficulty |-> Property("string", Difficulties),
                       status |-> Property("string", <<"active", "retired">>),
                       page |-> Property("integer", <<>>),
                       per_page |-> Property("integer", <<>>)], <<>>)
      [] tool.type = "StartChallenge" ->
           ToolSchema([challenge_id |-> Property("string", <<>>)], <<"challenge_id">>)
      [] tool.type = "SubmitChallengeFlag" ->
           ToolSchema([challenge_id |-> Property("string", <<>>),
                       flag |-> Property("string", <<>>),
                       difficulty |-> Property("integer", <<>>)],
                      <<"challenge_id", "flag", "difficulty">>)
      [] tool.type = "ListMachines" ->
           ToolSchema([status |-> Property("string", <<"active", "retired">>),
                       difficulty |-> Property("string", Difficulties),
                       os |-> Property("string", <<"Linux", "Windows">>),
                       page |-> Property("integer", <<>>),
                       per_page |-> Property("integer", <<>>)], <<>>)
      [] tool.type = "StartMachine" ->
           ToolSchema([machine_id |-> Property("integer", <<>>)], <<"machine_id">>)
      [] tool.type = "GetMachineIP" ->
           ToolSchema([machine_id |-> Property("integer", <<>>)], <<>>)
      [] tool.type = "SubmitUserFlag" ->
           ToolSchema([machine_id |-> Property("integer", <<>>),
                       flag |-> Property("string", <<>>)], <<"machine_id", "flag">>)
      [] tool.type = "SubmitRootFlag" ->
           ToolSchema([machine_id |-> Property("integer", <<>>),
                       flag |-> Property("string", <<>>)], <<"machine_id", "flag">>)
      [] tool.type = "GetUserProfile" -> ToolSchema(<<>>, <<>>)
      [] tool.type = "GetUserProgress" ->
           ToolSchema([type |-> Property("string", <<"overview", "machines", "challenges">>),
                       limit |-> Property("integer", <<>>)], <<>>)
      [] tool.type = "SearchContent" ->
           ToolSchema([query |-> Property("string", <<>>),
                       type |-> Property("string", <<"all", "machines", "challenges", "users">>)],
                      <<"query">>)
      [] tool.type = "GetServerStatus" -> ToolSchema(<<>>, <<>>)

\* Tool.Execute(ctx, args), the backend answering reply to its request and
\* the clock reading uptime since the tool was built.
Execute(tool, args, reply, uptime) ==
    CASE tool.type = "ListChallenges" -> ListChallengesExecute(args, reply)
      [] tool.type = "StartChallenge" -> StartChallengeExecute(args, reply)
      [] tool.type = "SubmitChallengeFlag" -> SubmitChallengeFlagExecute(args, reply)
      [] tool.type = "ListMachines" -> ListMachinesExecute(args, reply)
      [] tool.type = "StartMachine" -> StartMachineExecute(args, reply)
      [] tool.type = "GetMachineIP" -> GetMachineIPExecute(args, reply)
      [] tool.type = "SubmitUserFlag" -> SubmitUserFlagExecute(args, reply)
      [] tool.type = "SubmitRootFlag" -> SubmitRootFlagExecute(args, reply)
      [] tool.type = "GetUserProfile" -> GetUserProfileExecute(args, reply)
      [] tool.type = "GetUserProgress" -> GetUserProgressExecute(args, reply)
      [] tool.type = "SearchContent" -> SearchContentExecute(args, reply)
      [] tool.type = "GetServerStatus" -> GetServerStatusExecute(args, reply, uptime)

-----------------------------------------------------------------------------
(* internal/tools: the registry.                                           *)

\* The client server.New builds and hands to the registry.
htbClient == "htbClient"

\* The constructors of the tools: a tool is a value of its Go type holding
\* the client it was built with.
NewListChallenges(client) == [type |-> "ListChallenges", client |-> client]
NewStartChallenge(client) == [type |-> "StartChallenge", client |-> client]
NewSubmitChallengeFlag(client) == [type |-> "SubmitChallengeFlag", client |-> client]
NewListMachines(client) == [type |-> "ListMachines", client |-> client]
NewStartMachine(client) == [type |-> "StartMachine", client |-> client]
NewGetMachineIP(client) == [type |-> "GetMachineIP", client |-> client]
NewSubmitUserFlag(client) == [type |-> "SubmitUserFlag", client |-> client]
NewSubmitRootFlag(client) == [type |-> "SubmitRootFlag", client |-> client]
NewGetUserProfile(client) == [type |-> "GetUserProfile", client |-> client]
NewGetUserProgress(client) == [type |-> "GetUserProgress", client |-> client]
NewSearchContent(client) == [type |-> "SearchContent", client |-> client]
NewGetServerStatus(client) == [type |-> "GetServerStatus", client |-> client]

\* The zero Tool, which a lookup that misses returns.
NoTool == [type |-> "none", client |-> "none"]

\* The tools registerTools constructs, in the order it registers them.
StaticTools ==
    <<NewListChallenges(htbClient), NewStartChallenge(htbClient),
      NewSubmitChallengeFlag(htbClient), NewListMachines(htbClient),
      NewStartMachine(htbClient), NewGetMachineIP(htbClient),
      NewSubmitUserFlag(htbClient), NewSubmitRootFlag(htbClient),
      NewGetUserProfile(htbClient), NewGetUserProgress(htbClient),
      NewSearchContent(htbClient), NewGetServerStatus(htbClient)>>

\* make(map[string]Tool)
EmptyRegistry == [n \in {} |-> NoTool]

\* Registry.RegisterTool: r.tools[tool.Name()] = tool
RegisterToolFirstWins(r, tool) ==
    [n \in DOMAIN r \cup {Name(tool)} |-> IF n \in DOMAIN r THEN r[n] ELSE tool]

RegisterTool(r, tool) ==
    [n \in DOMAIN r \cup {Name(tool)} |-> IF n = Name(tool) THEN tool ELSE r[n]]

\* Registry.registerTools: RegisterTool for each static tool, in order.
RECURSIVE RegisterAll(_, _, _)
RegisterAll(r, ts, i) ==
    IF i > Len(ts) THEN r ELSE RegisterAll(RegisterTool(r, ts[i]), ts, i + 1)

registerTools(r) == RegisterAll(r, StaticTools, 1)

NewRegistry == registerTools(EmptyRegistry)

\* Registry.GetTool: the entry under exactly this key.
GetToolAnyCase(r, name) ==
    LET key == IF name = "List_Challenges" THEN "list_challenges" ELSE name
    IN IF key \in DOMAIN r THEN [tool |-> r[key], exists |-> TRUE]
       ELSE [tool |-> NoTool, exists |-> FALSE]

GetTool(r, name) ==
    IF name \in DOMAIN r THEN [tool |-> r[name], exists |-> TRUE]
    ELSE [tool |-> NoTool, exists |-> FALSE]

\* The keys of a map in one order.
RECURSIVE KeySeq(_)
KeySeq(S) ==
    IF S = {} THEN <<>>
    ELSE LET x == CHOOSE y \in S : TRUE IN <<x>> \o KeySeq(S \ {x})

\* Go leaves the iteration order of a map unspecified.  The orders modelled
\* are the rotations of one enumeration of the keys, forwards and backwards.
MapOrders(r) == (0 .. Cardinality(DOMAIN r) - 1) \X BOOLEAN

RangeOrder(r, order) ==
    LET keys == KeySeq(DOMAIN r)
        n == Len(keys)
        at(i) == ((i - 1 + order[1]) % n) + 1
    IN [i \in 1 .. n |-> IF order[2] THEN keys[at(n + 1 - i)] ELSE keys[at(i)]]

\* type Tool struct (the descriptor)
Descriptor(tool) ==
    [Name |-> Name(tool), Description |-> Description(tool), InputSchema |-> Schema(tool)]

\* Registry.GetTools: one descriptor per entry of the map, in range order.
GetToolsFirstPage(r, order) ==
    [i \in 1 .. Cardinality(DOMAIN r) - 1 |-> Descriptor(r[RangeOrder(r, order)[i]])]

GetTools(r, order) ==
    [i \in 1 .. Cardinality(DOMAIN r) |-> Descriptor(r[RangeOrder(r, order)[i]])]

\* Registry.ExecuteTool
ExecuteTool(r, name, args, reply, uptime) ==
    IF ~GetTool(r, name).exists THEN ToolFailed(<<"tool not found: ", name>>, <<>>)
    ELSE Execute(GetTool(r, name).tool, args, reply, uptime)

\* r.tools once a line has been handled: the handlers call GetTools and
\* ExecuteTool (and that GetTool), which read the map and write nothing.
ToolsAfterEvicting(r, line) ==
    IF Unmarshal(line).msg.Method = MethodCallTool
    THEN [n \in DOMAIN r \ {"list_challenges"} |-> r[n]]
    ELSE r

ToolsAfter(r, line) == r

-----------------------------------------------------------------------------
(* internal/server/server.go: the handlers.  A handler yields the records  *)
(* it writes (each the json.Marshal of a message, followed by a newline),  *)
(* what the registry returned to it, the tools whose Execute ran and the   *)
(* backend requests those issued.                                          *)
(* A handler that ends in "return s.sendResponse(...)" returns the error   *)
(* of the send to processMessages.                                         *)

Effect(out, call, ran, reqs) ==
    [out |-> out, invocation |-> call, invoked |-> ran, requests |-> reqs,
     returnsErr |-> TRUE]

\* "s.sendErrorResponse(...)" followed by "return nil": the handler drops
\* the error of the send and returns none.
ErrDropped(e) == [e EXCEPT !.returnsErr = FALSE]

\* Server.sendMessage: one record per message.
sendMessageTwice(msg) == <<Marshal(msg), Marshal(msg)>>

sendMessage(msg) == <<Marshal(msg)>>

\* Server.sendResponse and Server.sendErrorResponse
sendResponse(id, result) == sendMessage(NewResponse(id, result))

sendErrorResponseUnsigned(id, code, message, data) ==
    sendMessage(NewErrorResponse(id, 0 - code, message, data))

sendErrorResponse(id, code, message, data) ==
    sendMessage(NewErrorResponse(id, code, message, data))

\* Server.parseParams: nil params are missing; otherwise the params are
\* marshalled again and unmarshalled into the target struct, which fails
\* unless they are an object whose members have the types of its fields.
parseParams(params, target) ==
    LET fail(text) == [err |-> TRUE, text |-> text, ProtocolVersion |-> "",
                       Name |-> "", Arguments |-> [k \in ArgKeys |-> GoNil]]
        mismatch == <<"failed to unmarshal params: ", "cannot unmarshal">>
    IN IF params.shape = "nil" THEN fail(<<"missing parameters">>)
       ELSE IF params.shape # "object" THEN fail(mismatch)
       ELSE IF target = "InitializeRequest" /\ ~StringFieldOk(params.protocolVersion)
       THEN fail(mismatch)
       ELSE IF target = "CallToolRequest"
               /\ ~(StringFieldOk(params.name)
                    /\ params.arguments.t \in {"absent", "null", "obj"})
       THEN fail(mismatch)
       ELSE [err |-> FALSE, text |-> <<>>,
             ProtocolVersion |-> StringField(params.protocolVersion),
             Name |-> StringField(params.name),
             Arguments |-> [k \in ArgKeys |-> UnmarshalAny(params.arguments.m[k])]]

\* The result of initialize.
InitializeResponse ==
    [kind |-> "InitializeResponse",
     ProtocolVersion |-> MCPVersion,
     Capabilities |-> [Tools |-> [set |-> TRUE, ListChanged |-> FALSE]],
     ServerInfo |-> [Name |-> "htb-mcp-server", Version |-> "1.0.0"]]

handleInitializeStrict(msg) ==
    LET req == parseParams(msg.Params, "InitializeRequest")
    IN IF req.err \/ req.ProtocolVersion # MCPVersion
       THEN ErrDropped(Effect(sendErrorResponse(msg.ID, ErrorCodeInvalidParams, "Invalid params",
                                     req.text), "none", <<>>, <<>>))
       ELSE Effect(sendResponse(msg.ID, InitializeResponse), "none", <<>>, <<>>)

\* Server.handleInitialize: a protocol version other than the server's is
\* logged and accepted.
handleInitialize(msg) ==
    LET req == parseParams(msg.Params, "InitializeRequest")
    IN IF req.err
       THEN ErrDropped(Effect(sendErrorResponse(msg.ID, ErrorCodeInvalidParams, "Invalid params",
                                     req.text), "none", <<>>, <<>>))
       ELSE Effect(sendResponse(msg.ID, InitializeResponse), "none", <<>>, <<>>)

\* Server.handleListTools
handleListTools(r, msg, order) ==
    Effect(sendResponse(msg.ID, [kind |-> "map", tools |-> GetTools(r, order)]),
           "none", <<>>, <<>>)

\* The answer to a failure without the flag.
CallToolResultUnflagged(res) ==
    IF res.err
    THEN CallToolResponse(<<CreateTextContent(<<"Error executing tool: ">> \o res.text)>>,
                          FALSE)
    ELSE res.resp

\* Server.handleCallTool, after ExecuteTool has returned: a failure of the
\* tool is answered as a result with IsError set and the error's text as
\* its only content, a success with the tool's response.
CallToolResult(res) ==
    IF res.err
    THEN CallToolResponse(<<CreateTextContent(<<"Error executing tool: ">> \o res.text)>>,
                          TRUE)
    ELSE res.resp

\* Server.handleCallTool
handleCallTool(r, msg, reply, uptime) ==
    LET req == parseParams(msg.Params, "CallToolRequest")
        res == ExecuteTool(r, req.Name, req.Arguments, reply, uptime)
        ran == IF GetTool(r, req.Name).exists THEN <<GetTool(r, req.Name).tool>>
               ELSE <<>>
    IN IF req.err
       THEN ErrDropped(Effect(sendErrorResponse(msg.ID, ErrorCodeInvalidParams, "Invalid params",
                                     req.text), "none", <<>>, <<>>))
       ELSE Effect(sendResponse(msg.ID, CallToolResult(res)),
                   IF res.err THEN "error" ELSE "result", ran, res.reqs)

\* A dispatch that rejects a message whose version is not "2.0".
handleMessageCheckingVersion(r, line, reply, order, uptime) ==
    LET dec == Unmarshal(line)
        msg == dec.msg
    IN IF dec.err
       THEN ErrDropped(Effect(sendErrorResponse(GoNil, ErrorCodeParseError, "Parse error",
                                     <<"invalid JSON">>), "none", <<>>, <<>>))
       ELSE IF msg.JSONRPCVersion # "2.0"
       THEN ErrDropped(Effect(sendErrorResponse(msg.ID, ErrorCodeInvalidRequest,
                                     "Invalid Request", <<"jsonrpc">>),
                              "none", <<>>, <<>>))
       ELSE CASE msg.Method = MethodInitialize -> handleInitialize(msg)
              [] msg.Method = MethodListTools -> handleListTools(r, msg, order)
              [] msg.Method = MethodCallTool -> handleCallTool(r, msg, reply, uptime)
              [] OTHER ->
                   ErrDropped(Effect(sendErrorResponse(msg.ID, ErrorCodeMethodNotFound,
                                            "Method not found",
                                            <<"Unknown method: ", msg.Method>>),
                          "none", <<>>, <<>>))

\* Server.handleMessage: decode the line, dispatch on the method.
handleMessage(r, line, reply, order, uptime) ==
    LET dec == Unmarshal(line)
        msg == dec.msg
    IN IF dec.err
       THEN ErrDropped(Effect(sendErrorResponse(GoNil, ErrorCodeParseError, "Parse error",
                                     <<"invalid JSON">>), "none", <<>>, <<>>))
       ELSE CASE msg.Method = MethodInitialize -> handleInitialize(msg)
              [] msg.Method = MethodListTools -> handleListTools(r, msg, order)
              [] msg.Method = MethodCallTool -> handleCallTool(r, msg, reply, uptime)
              [] OTHER ->
                   ErrDropped(Effect(sendErrorResponse(msg.ID, ErrorCodeMethodNotFound,
                                            "Method not found",
                                            <<"Unknown method: ", msg.Method>>),
                          "none", <<>>, <<>>))

-----------------------------------------------------------------------------
(* The inputs: the lines the peer may send and the replies of the backend. *)

\* bufio.MaxScanTokenSize: the scanner of processMessages keeps the default
\* buffer, which holds a line and its newline.
MaxScanTokenSize == 65536

\* Length of an ordinary line.
ShortLen == 64

\* Identifiers: absent, null, strings (the empty one, one that reads as a
\* number), numbers (0, 1, and 2^53 + 1).
Ids == {JAbsent, JNull, JStr(""), JStr("1"), JNum(0, 0), JNum(0, 1), JNum(BigHi, 1)}

ServedMethods == {MethodInitialize, MethodListTools, MethodCallTool}

UnservedMethods ==
    {"", "Initialize", "TOOLS/LIST", MethodListResources, MethodReadResource,
     MethodListPrompts, MethodGetPrompt, "notifications/initialized"}

ArgMaps ==
    {NoArgs,
     [NoArgs EXCEPT !["challenge_id"] = JStr("42"), !["flag"] = JStr("HTB{flag}"),
                    !["difficulty"] = JNum(0, 5)],
     [NoArgs EXCEPT !["challenge_id"] = JNum(0, 42), !["flag"] = JStr("HTB{flag}"),
                    !["difficulty"] = JNum(0, 5)],
     [NoArgs EXCEPT !["machine_id"] = JNum(0, 7), !["flag"] = JStr("HTB{flag}")],
     [NoArgs EXCEPT !["machine_id"] = JStr("7"), !["flag"] = JStr("HTB{flag}")],
     [NoArgs EXCEPT !["query"] = JStr("ad"), !["type"] = JStr("machines")],
     [NoArgs EXCEPT !["status"] = JStr("retired"), !["per_page"] = JNum(0, 5)],
     [NoArgs EXCEPT !["status"] = JStr("bogus")]}

RegisteredNames == {Name(StaticTools[i]) : i \in 1 .. Len(StaticTools)}

CallNames == RegisteredNames \cup {"nonexistent", "List_Challenges", ""}

ShapeParams == {ParamsAbsent, ParamsNull, ParamsArray}

InitParams ==
    {ParamsObject(pv, JAbsent, ArgsAbsent) :
        pv \in {JStr(MCPVersion), JStr("2023-01-01"), JStr(""), JAbsent, JNum(0, 5)}}

CallParams ==
    {ParamsObject(JAbsent, JStr(n), ArgsObject(a)) : n \in CallNames, a \in ArgMaps}
    \cup {ParamsObject(JAbsent, JStr("get_user_profile"), ArgsAbsent),
          ParamsObject(JAbsent, JStr("start_machine"), ArgsAbsent),
          ParamsObject(JAbsent, JStr("get_user_profile"), ArgsString),
          ParamsObject(JAbsent, JAbsent, ArgsObject(NoArgs)),
          ParamsObject(JAbsent, JNum(0, 5), ArgsObject(NoArgs))}

\* Every method with every params it may come with.
AllBodies ==
    ({MethodInitialize} \X (InitParams \cup ShapeParams))
    \cup ({MethodListTools} \X {ParamsAbsent, ParamsObject(JAbsent, JAbsent, ArgsAbsent)})
    \cup ({MethodCallTool} \X (CallParams \cup ShapeParams))
    \cup (UnservedMethods \X {ParamsAbsent, ParamsObject(JAbsent, JAbsent, ArgsAbsent)})

\* One body for each way through the handlers.
CoreBodies ==
    ({MethodInitialize} \X
        {ParamsObject(JStr(MCPVersion), JAbsent, ArgsAbsent),
         ParamsObject(JStr("2023-01-01"), JAbsent, ArgsAbsent),
         ParamsAbsent, ParamsArray})
    \cup ({MethodListTools} \X {ParamsAbsent})
    \cup ({MethodCallTool} \X
        {ParamsObject(JAbsent, JStr("nonexistent"), ArgsObject(NoArgs)),
         ParamsObject(JAbsent, JStr("list_challenges"), ArgsObject(NoArgs)),
         ParamsObject(JAbsent, JStr("start_machine"), ArgsObject(NoArgs)),
         ParamsObject(JAbsent, JNum(0, 5), ArgsObject(NoArgs)),
         ParamsAbsent, ParamsNull, ParamsArray})
    \cup (UnservedMethods \X {ParamsAbsent})

Request2(id, body) == LineOf(ShortLen, "object", JStr("2.0"), id, JStr(body[1]), body[2])

Lines ==
    {LineOf(0, "blank", JAbsent, JAbsent, JAbsent, ParamsAbsent)}
    \cup {LineOf(n, "garbage", JAbsent, JAbsent, JAbsent, ParamsAbsent) :
            n \in {ShortLen, MaxScanTokenSize - 1, MaxScanTokenSize}}
    \cup {LineOf(ShortLen, "nonobject", JAbsent, JAbsent, JAbsent, ParamsAbsent),
          LineOf(ShortLen, "null", JAbsent, JAbsent, JAbsent, ParamsAbsent)}
    \* members of the wrong type, with and without an id
    \cup {LineOf(ShortLen, "object", JStr("2.0"), id, JNum(0, 5), ParamsAbsent) :
            id \in {JAbsent, JNum(0, 1), JStr("1")}}
    \cup {LineOf(ShortLen, "object", JNum(0, 2), JNum(0, 1), JStr(MethodListTools),
                 ParamsAbsent)}
    \* a missing method, a missing or another jsonrpc
    \cup {LineOf(ShortLen, "object", JStr("2.0"), JNum(0, 1), JAbsent, ParamsAbsent)}
    \cup {LineOf(ShortLen, "object", v, JNum(0, 1), JStr(m), ParamsAbsent) :
            v \in {JAbsent, JStr("1.0")}, m \in {MethodListTools, "bogus"}}
    \* long requests
    \cup {LineOf(n, "object", JStr("2.0"), JNum(0, 1), JStr(MethodListTools), ParamsAbsent) :
            n \in {MaxScanTokenSize - 1, MaxScanTokenSize}}
    \cup {Request2(id, body) : id \in Ids, body \in CoreBodies}
    \cup {Request2(JNum(0, 1), body) : body \in AllBodies}

Replies ==
    {TransportFailure,
     HttpReply(401, FALSE, "text", FALSE),
     HttpReply(302, TRUE, "text", FALSE),
     HttpReply(200, FALSE, "object", TRUE),
     HttpReply(200, FALSE, "object", FALSE),
     HttpReply(200, FALSE, "text", FALSE),
     HttpReply(500, FALSE, "object", TRUE),
     HttpReply(503, FALSE, "text", FALSE)}

-----------------------------------------------------------------------------
(* pkg/config: the configuration read from the environment.  A token is    *)
(* the sequence of its characters; a variable of the environment is unset, *)
(* or set to a text that strconv.Atoi rejects, or set to a number.         *)

\* Longest token drawn.
MaxTokenLen == 4

EnvUnset == [set |-> FALSE, s |-> "", isnum |-> FALSE, n |-> 0]
EnvText(s) == [set |-> TRUE, s |-> s, isnum |-> FALSE, n |-> 0]
EnvNumber(s, n) == [set |-> TRUE, s |-> s, isnum |-> TRUE, n |-> n]

\* os.Getenv: the value, empty when the variable is unset.
Getenv(env, key) == IF env[key].set THEN env[key] ELSE EnvUnset

\* os.Getenv("HTB_TOKEN")
GetenvToken(env) == IF env.HTB_TOKEN.set THEN env.HTB_TOKEN.token ELSE <<>>

\* validateHTBToken: counts the dots of the token and wants two.
RECURSIVE CountDots(_, _)
CountDots(token, i) ==
    IF i > Len(token) THEN 0
    ELSE (IF token[i] = "." THEN 1 ELSE 0) + CountDots(token, i + 1)

validateHTBTokenAtLeast(token) ==
    IF CountDots(token, 1) < 2
    THEN [err |-> TRUE,
          text |-> <<"HTB token must be a valid JWT with 3 parts separated by dots">>]
    ELSE [err |-> FALSE, text |-> <<>>]

validateHTBToken(token) ==
    IF CountDots(token, 1) # 2
    THEN [err |-> TRUE,
          text |-> <<"HTB token must be a valid JWT with 3 parts separated by dots">>]
    ELSE [err |-> FALSE, text |-> <<>>]

\* The nil *Config.
NilConfig == [nil |-> TRUE]

\* An optional integer variable: its number when it is set, not empty and
\* strconv.Atoi accepts it, else the default.
IntOr(v, default) == IF v.s # "" /\ v.isnum THEN v.n ELSE default

\* config.Load; durations are in seconds.
Load(env) ==
    IF GetenvToken(env) = <<>>
    THEN [err |-> TRUE, text |-> <<"HTB_TOKEN environment variable is required">>,
          cfg |-> NilConfig]
    ELSE IF validateHTBToken(GetenvToken(env)).err
    THEN [err |-> TRUE,
          text |-> <<"invalid HTB_TOKEN format: ">>
                     \o validateHTBToken(GetenvToken(env)).text,
          cfg |-> NilConfig]
    ELSE [err |-> FALSE, text |-> <<>>,
          cfg |-> [nil |-> FALSE,
                   HTBToken |-> GetenvToken(env),
                   HTBBaseURL |-> "https://labs.hackthebox.com/api/v4",
                   ServerPort |-> IntOr(Getenv(env, "SERVER_PORT"), 3000),
                   LogLevel |-> IF Getenv(env, "LOG_LEVEL").s # ""
                                THEN Getenv(env, "LOG_LEVEL").s ELSE "INFO",
                   RateLimitPerMinute |-> IntOr(Getenv(env, "RATE_LIMIT_PER_MINUTE"), 100),
                   CacheTTL |-> IntOr(Getenv(env, "CACHE_TTL_SECONDS"), 5 * 60),
                   RequestTimeout |-> IntOr(Getenv(env, "REQUEST_TIMEOUT_SECONDS"), 30)]]

-----------------------------------------------------------------------------
(* The process: main, Server.Start, Server.Wait and processMessages.       *)

NoLine == LineOf(0, "none", JAbsent, JAbsent, JAbsent, ParamsAbsent)

NoRecord ==
    [jsonrpc |-> JAbsent, id |-> JAbsent, method |-> JAbsent, params |-> ParamsAbsent,
     result |-> NilResult, error |-> NilError]

\* No library call is under way.
Idle == [op |-> "none", done |-> FALSE]

\* After server.New(cfg): the registry is built, nothing has run.
Unstarted ==
    /\ state = "Uninitialized"
    /\ health = NoReply
    /\ registry = NewRegistry
    /\ loop = "notStarted"
    /\ nread = 0
    /\ cur = NoLine
    /\ handled = FALSE
    /\ lastOut = NoRecord
    /\ output = <<>>
    /\ invocation = "none"
    /\ invoked = <<>>
    /\ requests = <<>>
    /\ pending = FALSE
    /\ writable = TRUE
    /\ logged = FALSE
    /\ replied = NoReply
    /\ repeats = FALSE

\* The environment main runs in: HTB_TOKEN holds a token, the request
\* timeout is as given, the other variables are unset.
Environment(timeout) ==
    [HTB_TOKEN |-> [set |-> TRUE, token |-> <<"h", ".", "p", ".", "s">>],
     SERVER_PORT |-> EnvUnset, LOG_LEVEL |-> EnvUnset,
     RATE_LIMIT_PER_MINUTE |-> EnvUnset, CACHE_TTL_SECONDS |-> EnvUnset,
     REQUEST_TIMEOUT_SECONDS |-> timeout]

\* main: config.Load() and server.New(cfg), which builds the client.
Configured(timeout) ==
    /\ ~Load(Environment(timeout)).err
    /\ httpClient = NewClient(Load(Environment(timeout)).cfg)

Init == Unstarted /\ lab = Idle /\ Configured(EnvUnset)

\* Server.Start, called by main: the probe fails and main ends the process
\* with log.Fatalf, or the read loop is started.
Start ==
    /\ state = "Uninitialized"
    /\ \E reply \in Replies :
         /\ health' = [reply EXCEPT !.body = "none", !.hasField = FALSE]
         /\ IF HealthCheck(reply).err
            THEN state' = "Fatal" /\ loop' = loop
            ELSE state' = "Running" /\ loop' = "scan"
    /\ UNCHANGED <<registry, nread, cur, handled, lastOut, output, invocation,
                   invoked, requests, lab,
                   httpClient, pending, writable, logged, replied,
                   repeats>>

\* Server.Wait: SIGINT or SIGTERM arrives on sigChan and the shutdown is
\* logged.  Nothing tells the goroutine of processMessages.
Wait ==
    /\ state = "Running"
    /\ state' = "ShuttingDown"
    /\ UNCHANGED <<health, registry, loop, nread, cur, handled, lastOut, output,
                   invocation, invoked, requests, lab,
                   httpClient, pending, writable, logged, replied,
                   repeats>>

\* main returns after srv.Wait(): the process ends, and the goroutine of
\* processMessages with it, wherever it stands.
Exit ==
    /\ state = "ShuttingDown"
    /\ state' = "Exited"
    /\ UNCHANGED <<health, registry, loop, nread, cur, handled, lastOut, output,
                   invocation, invoked, requests, lab,
                   httpClient, pending, writable, logged, replied,
                   repeats>>

\* The goroutine of processMessages runs from Start until the process ends.
Alive == state \in {"Running", "ShuttingDown"}

ScanLineAhead ==
    /\ Alive
    /\ loop \in {"scan", "handle"}
    /\ nread < MaxLines
    /\ \E line \in Lines :
         /\ cur' = line
         /\ logged' = (line.len >= MaxScanTokenSize)
         /\ loop' = IF line.len >= MaxScanTokenSize THEN "scanError"
                    ELSE IF line.k = "blank" THEN "scan"
                    ELSE "handle"
    /\ nread' = nread + 1
    /\ handled' = FALSE
    /\ lastOut' = NoRecord
    /\ invocation' = "none"
    /\ invoked' = <<>>
    /\ requests' = <<>>
    /\ replied' = NoReply
    /\ repeats' = (nread > 0 /\ cur' = cur)
    /\ UNCHANGED <<state, health, registry, output, lab, httpClient, pending, writable>>

ScanLineNoSkip ==
    /\ Alive
    /\ loop = "scan"
    /\ nread < MaxLines
    /\ \E line \in Lines :
         /\ cur' = line
         /\ logged' = (line.len >= MaxScanTokenSize)
         /\ loop' = IF line.len >= MaxScanTokenSize THEN "scanError"
                    ELSE "handle"
    /\ nread' = nread + 1
    /\ handled' = FALSE
    /\ lastOut' = NoRecord
    /\ invocation' = "none"
    /\ invoked' = <<>>
    /\ requests' = <<>>
    /\ replied' = NoReply
    /\ repeats' = (nread > 0 /\ cur' = cur)
    /\ UNCHANGED <<state, health, registry, output, lab, httpClient, pending, writable>>

\* processMessages, scanner.Scan() meeting a line: a line that does not fit
\* the buffer ends the loop (bufio.ErrTooLong), an empty line is skipped,
\* any other line is handed to handleMessage.
ScanLine ==
    /\ Alive
    /\ loop = "scan"
    /\ nread < MaxLines
    /\ \E line \in Lines :
         /\ cur' = line
         /\ logged' = (line.len >= MaxScanTokenSize)
         /\ loop' = IF line.len >= MaxScanTokenSize THEN "scanError"
                    ELSE IF line.k = "blank" THEN "scan"
                    ELSE "handle"
    /\ nread' = nread + 1
    /\ handled' = FALSE
    /\ lastOut' = NoRecord
    /\ invocation' = "none"
    /\ invoked' = <<>>
    /\ requests' = <<>>
    /\ replied' = NoReply
    /\ repeats' = (nread > 0 /\ cur' = cur)
    /\ UNCHANGED <<state, health, registry, output, lab, httpClient, pending, writable>>

\* processMessages, scanner.Scan() meeting the end of the input.
ScanEOF ==
    /\ Alive
    /\ loop = "scan"
    /\ loop' = "eof"
    /\ UNCHANGED <<state, health, registry, nread, cur, handled, lastOut, output,
                   invocation, invoked, requests, lab,
                   httpClient, pending, writable, logged, replied,
                   repeats>>

\* The backend is asked only while a tools/call is handled and the map is
\* ranged over only while a tools/list is: the other lines meet no choice.
RepliesFor(line) ==
    IF Unmarshal(line).msg.Method = MethodCallTool THEN Replies ELSE {NoReply}

OrdersFor(r, line) ==
    IF Unmarshal(line).msg.Method = MethodListTools THEN MapOrders(r)
    ELSE {<<0, FALSE>>}

\* The clock is read only by get_server_status.
Uptimes == {"3s", "4s"}

UptimesFor(line) ==
    IF /\ Unmarshal(line).msg.Method = MethodCallTool
       /\ line.params.shape = "object"
       /\ StringField(line.params.name) = "get_server_status"
    THEN Uptimes ELSE {"0s"}

\* fmt.Fprintf(s.output, "%s\n", data) for each record the handler wrote
\* for line n: the record and its newline go to the end of the stream in
\* one write.
FprintfAtFront(out, records, n) == [i \in 1 .. Len(records) |-> n] \o out

Fprintf(out, records, n) == out \o [i \in 1 .. Len(records) |-> n]

\* processMessages, s.handleMessage(ctx, line) from call to return, the
\* backend answering one of replies.  A stream that does not accept the
\* write makes sendMessage fail: nothing is written, and the error is
\* logged by processMessages if the handler returned it.
Handle(replies) ==
    /\ Alive
    /\ loop = "handle"
    /\ \E reply \in replies, order \in OrdersFor(registry, cur),
          uptime \in UptimesFor(cur) :
         LET e == handleMessage(registry, cur, reply, order, uptime)
             wrote == IF writable THEN e.out ELSE <<>>
         IN /\ lastOut' = IF wrote = <<>> THEN NoRecord ELSE wrote[Len(wrote)]
            /\ output' = Fprintf(output, wrote, nread)
            /\ logged' = (~writable /\ e.returnsErr)
            /\ invocation' = e.invocation
            /\ invoked' = e.invoked
            /\ requests' = e.requests
            /\ replied' = IF e.requests = <<>> THEN NoReply ELSE reply
    /\ registry' = ToolsAfter(registry, cur)
    /\ handled' = TRUE
    /\ loop' = "scan"
    /\ pending' = FALSE
    /\ UNCHANGED <<state, health, nread, cur, lab, httpClient, writable, repeats>>

\* The handler runs from call to return in one step.
HandleMessage == ~pending /\ Handle(RepliesFor(cur))

Next == Start \/ Wait \/ Exit \/ ScanLine \/ ScanEOF \/ HandleMessage

Spec == Init /\ [][Next]_vars

-----------------------------------------------------------------------------
(* The server with the backend call under way.  httpClient.Do is entered   *)
(* (Do) and left in a later step: the backend answers or the transport     *)
(* fails (DoReturns), which may never happen, or the timer of the          *)
(* http.Client fires (DoTimesOut), which net/http arms only for a Timeout  *)
(* above zero.  The request timeout is whatever Load accepts from          *)
(* REQUEST_TIMEOUT_SECONDS.                                                *)

TimeoutSettings == {EnvUnset, EnvText("soon"), EnvNumber("5", 5), EnvNumber("0", 0)}

LiveInit ==
    /\ Unstarted
    /\ lab = Idle
    /\ \E timeout \in TimeoutSettings : Configured(timeout)

\* The handler of the line sends a request to the backend.
AsksBackend(r, line) ==
    \E reply \in RepliesFor(line) :
        handleMessage(r, line, reply, <<0, FALSE>>, "0s").requests # <<>>

\* Client.Request, c.httpClient.Do(req) entered.
Do ==
    /\ Alive
    /\ loop = "handle"
    /\ ~pending
    /\ AsksBackend(registry, cur)
    /\ pending' = TRUE
    /\ UNCHANGED <<state, health, registry, loop, nread, cur, handled, lastOut, output,
                   invocation, invoked, requests, lab, httpClient, writable, logged, replied,
                   repeats>>

\* c.httpClient.Do(req) returns what the backend answered, or a failure of
\* the transport, and the handler runs to its end.
DoReturns == pending /\ Handle(Replies)

\* The timer of the http.Client fires: Do returns a transport failure.
DoTimesOut == pending /\ httpClient.Timeout > 0 /\ Handle({TransportFailure})

\* A handler that asks the backend nothing.
HandleLocal == ~AsksBackend(registry, cur) /\ HandleMessage

\* Lines read in a run of this specification.
MaxLiveLines == 1

ScanNext == nread < MaxLiveLines /\ ScanLine

LiveNext ==
    Start \/ Wait \/ Exit \/ ScanNext \/ ScanEOF \/ HandleLocal \/ Do \/ DoReturns
    \/ DoTimesOut

\* The Go runtime fires an armed timer; nothing makes the backend answer.
LiveSpec == LiveInit /\ [][LiveNext]_vars /\ WF_vars(DoTimesOut)

-----------------------------------------------------------------------------
(* The server with an output stream that may stop accepting writes (the    *)
(* device is full, the descriptor is closed).                              *)

OutputFails ==
    /\ Alive
    /\ writable
    /\ writable' = FALSE
    /\ UNCHANGED <<state, health, registry, loop, nread, cur, handled, lastOut, output,
                   invocation, invoked, requests, lab, httpClient, pending, logged,
                   replied, repeats>>

FaultNext == Next \/ OutputFails

FaultSpec == Init /\ [][FaultNext]_vars

-----------------------------------------------------------------------------
(* The library on its own: the exported functions of pkg/mcp, pkg/config   *)
(* and internal/tools applied to arguments of the caller's choice.  lab    *)
(* holds the call (op), its arguments (in) and, once done, what it         *)
(* returned (out).  The server is not started.                             *)

server == <<state, health, registry, loop, nread, cur, handled, lastOut, output,
            invocation, invoked, requests, httpClient, pending, writable, logged, replied,
                   repeats>>

\* json.Unmarshal(data, &msg) of a record that json.Marshal wrote: jsonrpc,
\* id, method and params as for a line; a result member that is null leaves
\* Result nil, any other fills it; an error member fills Error.
UnmarshalMessage(rec) ==
    LET dec == Unmarshal(LineOf(ShortLen, "object", rec.jsonrpc, rec.id, rec.method,
                                rec.params))
    IN [err |-> dec.err,
        msg |-> [dec.msg EXCEPT
                   !.Result = IF rec.result.kind \in {"nil", "null"} THEN NilResult
                              ELSE rec.result,
                   !.Error = rec.error]]

\* Arguments of the constructors.  An interface{} argument is nil, or holds
\* a value; a value that is a nil map or a nil pointer is not a nil
\* interface and json.Marshal writes it as null (params of shape "null",
\* results of kind "null").
LabIds == {GoNil, GoString(""), GoString("req-1"), GoFloat64(0, 0), GoFloat64(0, 1)}
LabMethods == {"", MethodListTools, "notifications/initialized"}
LabParams ==
    {NilParams, ParamsNull, ParamsArray, ParamsObject(JStr(MCPVersion), JAbsent, ArgsAbsent)}
LabResults ==
    {NilResult, [kind |-> "null"], InitializeResponse,
     CallToolResponse(<<CreateTextContent(<<"ok">>)>>, FALSE)}
LabCodes == {ErrorCodeParseError, ErrorCodeInternalError, 0, 7}
LabTexts == {<<>>, <<"detail">>}

Constructors == {"NewRequest", "NewResponse", "NewErrorResponse", "NewNotification"}

CtorCall(op, id, method, params, result, code, message, data) ==
    [op |-> op, done |-> FALSE, decoded |-> FALSE,
     in |-> [id |-> id, method |-> method, params |-> params, result |-> result,
             code |-> code, message |-> message, data |-> data],
     out |-> ZeroMessage, wire |-> NoRecord, back |-> [err |-> FALSE, msg |-> ZeroMessage]]

CtorCalls ==
    {CtorCall("NewRequest", id, m, p, NilResult, 0, "", <<>>) :
        id \in LabIds, m \in LabMethods, p \in LabParams}
    \cup {CtorCall("NewNotification", GoNil, m, p, NilResult, 0, "", <<>>) :
            m \in LabMethods, p \in LabParams}
    \cup {CtorCall("NewResponse", id, "", NilParams, r, 0, "", <<>>) :
            id \in LabIds, r \in LabResults}
    \cup {CtorCall("NewErrorResponse", id, "", NilParams, NilResult, c, msg, d) :
            id \in LabIds, c \in LabCodes, msg \in {"", "Parse error"}, d \in LabTexts}

Returns(out) == lab' = [lab EXCEPT !.out = out, !.done = TRUE]

CallNewRequest ==
    /\ lab.op = "NewRequest" /\ ~lab.done
    /\ Returns(NewRequest(lab.in.id, lab.in.method, lab.in.params))
    /\ UNCHANGED server

CallNewResponse ==
    /\ lab.op = "NewResponse" /\ ~lab.done
    /\ Returns(NewResponse(lab.in.id, lab.in.result))
    /\ UNCHANGED server

CallNewErrorResponse ==
    /\ lab.op = "NewErrorResponse" /\ ~lab.done
    /\ Returns(NewErrorResponse(lab.in.id, lab.in.code, lab.in.message, lab.in.data))
    /\ UNCHANGED server

CallNewNotification ==
    /\ lab.op = "NewNotification" /\ ~lab.done
    /\ Returns(NewNotification(lab.in.method, lab.in.params))
    /\ UNCHANGED server

\* json.Marshal of the message built, then json.Unmarshal of the bytes.
RoundTrip ==
    /\ lab.op \in Constructors /\ lab.done /\ ~lab.decoded
    /\ lab' = [lab EXCEPT !.wire = Marshal(lab.out),
                          !.back = UnmarshalMessage(Marshal(lab.out)),
                          !.decoded = TRUE]
    /\ UNCHANGED server

\* Registry.RegisterTool applied to a registry and a tool.  The tools are
\* those of the repository, built with the server's client or with another.
LabClients == {htbClient, "otherClient"}

LabTools ==
    {NewListChallenges(c) : c \in LabClients}
    \cup {NewSubmitUserFlag(c) : c \in LabClients}
    \cup {NewSubmitRootFlag(c) : c \in LabClients}
    \cup {NewGetServerStatus(c) : c \in LabClients}

LabRegistries ==
    {EmptyRegistry, NewRegistry, RegisterTool(EmptyRegistry, NewSubmitUserFlag(htbClient)),
     RegisterTool(NewRegistry, NewListChallenges("otherClient"))}

RegisterCalls ==
    {[op |-> "RegisterTool", done |-> FALSE, in |-> [r |-> r, tool |-> t],
      out |-> EmptyRegistry] : r \in LabRegistries, t \in LabTools}

CallRegisterTool ==
    /\ lab.op = "RegisterTool" /\ ~lab.done
    /\ Returns(RegisterTool(lab.in.r, lab.in.tool))
    /\ UNCHANGED server

\* Registry.ExecuteTool applied to a registry, a name and decoded arguments,
\* the backend answering reply.
\* Arguments that satisfy a tool with required properties, and the ways of
\* spoiling one of them: the member left out, null, or of the other type.
GoodArgMaps ==
    {[NoArgs EXCEPT !["challenge_id"] = JStr("42"), !["flag"] = JStr("HTB{flag}"),
                    !["difficulty"] = JNum(0, 5)],
     [NoArgs EXCEPT !["machine_id"] = JNum(0, 7), !["flag"] = JStr("HTB{flag}")],
     [NoArgs EXCEPT !["query"] = JStr("ad")]}

Spoiled(j) == {JAbsent, JNull, IF j.t = "str" THEN JNum(0, 7) ELSE JStr("7")}

SpoiledArgMaps ==
    UNION {{[a EXCEPT ![k] = j] : j \in Spoiled(a[k])} :
             a \in GoodArgMaps, k \in {"challenge_id", "flag", "difficulty",
                                        "machine_id", "query"}}

LabArgs == {[k \in ArgKeys |-> UnmarshalAny(a[k])] : a \in ArgMaps \cup SpoiledArgMaps}

ExecuteCalls ==
    {[op |-> "ExecuteTool", done |-> FALSE,
      in |-> [r |-> r, name |-> n, args |-> a, reply |-> reply, uptime |-> "3s"],
      out |-> ToolFailed(<<>>, <<>>)] :
        r \in {NewRegistry, RegisterTool(EmptyRegistry, NewSubmitUserFlag(htbClient))},
        n \in CallNames, a \in LabArgs, reply \in Replies}

CallExecuteTool ==
    /\ lab.op = "ExecuteTool" /\ ~lab.done
    /\ Returns(ExecuteTool(lab.in.r, lab.in.name, lab.in.args, lab.in.reply,
                           lab.in.uptime))
    /\ UNCHANGED server

\* CreateJSONContent applied to a value, then the tail of a tool that
\* serializes the value and the tail of handleCallTool that answers.
LabData == {"body", "body.info", "<nil>", "status:running", Unserializable}
LabWraps == {"failed to fetch machines: ", "failed to get user profile: ", ""}

JSONContentCalls ==
    {[op |-> "CreateJSONContent", done |-> FALSE, in |-> [data |-> d, wrap |-> w],
      out |-> [content |-> CreateJSONContent("<nil>"), tool |-> ToolFailed(<<>>, <<>>),
               response |-> NilResult]] : d \in LabData, w \in LabWraps}

CallCreateJSONContent ==
    /\ lab.op = "CreateJSONContent" /\ ~lab.done
    /\ LET tool == JSONResult(Value(lab.in.data), lab.in.wrap, <<>>)
       IN Returns([content |-> CreateJSONContent(lab.in.data), tool |-> tool,
                   response |-> CallToolResult(tool)])
    /\ UNCHANGED server

\* config.Load applied to an environment, validateHTBToken to a token.
Tokens == UNION {[1 .. k -> {"a", "."}] : k \in 0 .. MaxTokenLen}

EnvTokens ==
    {[set |-> FALSE, token |-> <<>>]} \cup {[set |-> TRUE, token |-> t] : t \in Tokens}

EnvValues == {EnvUnset, EnvText("abc"), EnvNumber("60", 60)}

Environments ==
    {[HTB_TOKEN |-> t, SERVER_PORT |-> port, LOG_LEVEL |-> level,
      RATE_LIMIT_PER_MINUTE |-> rate, CACHE_TTL_SECONDS |-> ttl,
      REQUEST_TIMEOUT_SECONDS |-> timeout] :
        t \in EnvTokens, port \in EnvValues, level \in {EnvUnset, EnvText(""), EnvText("DEBUG")},
        rate \in {EnvUnset, EnvNumber("200", 200)}, ttl \in {EnvUnset, EnvText("abc")},
        timeout \in EnvValues}

LoadCalls ==
    {[op |-> "Load", done |-> FALSE, in |-> env,
      out |-> [err |-> FALSE, text |-> <<>>, cfg |-> NilConfig]] : env \in Environments}

ValidateCalls ==
    {[op |-> "validateHTBToken", done |-> FALSE, in |-> t,
      out |-> [err |-> FALSE, text |-> <<>>]] : t \in Tokens}

CallLoad ==
    /\ lab.op = "Load" /\ ~lab.done
    /\ Returns(Load(lab.in))
    /\ UNCHANGED server

CallValidateHTBToken ==
    /\ lab.op = "validateHTBToken" /\ ~lab.done
    /\ Returns(validateHTBToken(lab.in))
    /\ UNCHANGED server

\* The library specification: one call, of any function, on any arguments.
LibInit ==
    /\ Unstarted
    /\ Configured(EnvUnset)
    /\ \/ lab \in CtorCalls
       \/ lab \in RegisterCalls
       \/ lab \in ExecuteCalls
       \/ lab \in JSONContentCalls
       \/ lab \in LoadCalls
       \/ lab \in ValidateCalls

LibNext ==
    \/ CallNewRequest \/ CallNewResponse \/ CallNewErrorResponse \/ CallNewNotification
    \/ RoundTrip
    \/ CallRegisterTool
    \/ CallExecuteTool
    \/ CallCreateJSONContent
    \/ CallLoad \/ CallValidateHTBToken

LibSpec == LibInit /\ [][LibNext]_vars

-----------------------------------------------------------------------------
(* Vocabulary of the properties, stated on the line read and on the record *)
(* written for it.                                                         *)

\* The line decodes as a Message: it is null, or an object whose jsonrpc
\* and method members, if any, are strings.
DecodesAsMessage(line) ==
    \/ line.k = "null"
    \/ /\ line.k = "object"
       /\ line.jsonrpc.t \in {"absent", "null", "str"}
       /\ line.method.t \in {"absent", "null", "str"}

\* The method the line asks for, empty when it has none.
MethodOf(line) == IF line.method.t = "str" THEN line.method.s ELSE ""

\* handleMessage has returned for a line that decoded.
Answered == handled /\ DecodesAsMessage(cur)

\* The params decode into the request shape of the method's handler.
ParamsDecode(line) ==
    /\ line.params.shape = "object"
    /\ MethodOf(line) = MethodInitialize =>
         line.params.protocolVersion.t \in {"absent", "null", "str"}
    /\ MethodOf(line) = MethodCallTool =>
         /\ line.params.name.t \in {"absent", "null", "str"}
         /\ line.params.arguments.t \in {"absent", "null", "obj"}

\* The record is correlated to the line: it carries the line's id, and no
\* id when the line has none.
Correlated(line, rec) ==
    IF line.id.t \in {"str", "num"} THEN rec.id = line.id
    ELSE rec.id.t \in {"absent", "null"}

IsErrorRecord(rec, code) ==
    /\ rec.jsonrpc = JStr("2.0")
    /\ rec.error.set
    /\ rec.error.Code = code
    /\ rec.result = NilResult

IsResultRecord(rec) ==
    /\ rec.jsonrpc = JStr("2.0")
    /\ ~rec.error.set
    /\ rec.result # NilResult

Mentions(text, word) == \E i \in 1 .. Len(text) : text[i] = word

-----------------------------------------------------------------------------
(* Properties.                                                             *)

\* C1: the record written for a line that decodes and carries a string or a
\* numeric id carries that id verbatim, the same string or the same number.
C1_IdEchoedVerbatim ==
    (Answered /\ cur.id.t \in {"str", "num"}) => lastOut.id = cur.id

\* C1, the part the code keeps: an id that a float64 holds exactly (a string,
\* or an integer below 2^53) comes back verbatim.
C1_ExactIdEchoed ==
    (Answered /\ (cur.id.t = "str" \/ (cur.id.t = "num" /\ cur.id.hi < BigHi)))
        => lastOut.id = cur.id

\* C2: a line that decodes and whose method is none of initialize,
\* tools/list and tools/call is answered with error -32601, correlated to
\* the line, its data naming the method; no tool runs.
C2_UnknownMethodAnswered ==
    (Answered /\ MethodOf(cur) \notin ServedMethods) =>
        /\ IsErrorRecord(lastOut, -32601)
        /\ Correlated(cur, lastOut)
        /\ Mentions(lastOut.error.Data, MethodOf(cur))
        /\ invoked = <<>>
        /\ Len(output) > 0 /\ output[Len(output)] = nread

\* C3: a non-blank line that does not decode is answered with error -32700
\* in a record that carries "id": null.
C3_ParseErrorCarriesNullId ==
    (handled /\ cur.k # "blank" /\ ~DecodesAsMessage(cur)) =>
        /\ IsErrorRecord(lastOut, -32700)
        /\ lastOut.id.t = "null"

\* C4: no line ends the read loop: while the server is Running and the
\* input is open, the loop is scanning or handling.
C4_NoLineEndsTheLoop ==
    state = "Running" => loop \in {"scan", "handle", "eof"}

\* C5: a tools/call whose params decode and whose registry invocation fails
\* is answered with a result, never an error object: correlated to the
\* line, isError true, one content block of type text, which names the tool
\* when the tool is unknown.
C5_ToolFailureIsAResult ==
    (Answered /\ MethodOf(cur) = MethodCallTool /\ ParamsDecode(cur)
       /\ invocation = "error") =>
        /\ IsResultRecord(lastOut)
        /\ Correlated(cur, lastOut)
        /\ lastOut.result.kind = "CallToolResponse"
        /\ lastOut.result.IsError
        /\ Len(lastOut.result.Content) = 1
        /\ lastOut.result.Content[1].Type = "text"
        /\ StringField(cur.params.name) \notin RegisteredNames =>
             Mentions(lastOut.result.Content[1].Text, StringField(cur.params.name))

\* C6: initialize and tools/call with params that are absent, null or do not
\* decode are answered with error -32602, correlated to the line, and for
\* tools/call no tool runs and no backend request is made.
C6_BadParamsAnswered ==
    (Answered /\ MethodOf(cur) \in {MethodInitialize, MethodCallTool}
       /\ ~ParamsDecode(cur)) =>
        /\ IsErrorRecord(lastOut, -32602)
        /\ Correlated(cur, lastOut)
        /\ invocation = "none" /\ invoked = <<>> /\ requests = <<>>

\* C7: every tools/list result holds one descriptor per registered tool: its
\* names are the registered names, none twice and none missing, whatever the
\* order and whatever was handled before.
C7_ListIsTheRegisteredSet ==
    (Answered /\ MethodOf(cur) = MethodListTools) =>
        /\ IsResultRecord(lastOut)
        /\ lastOut.result.kind = "map"
        /\ LET tools == lastOut.result.tools
           IN /\ {tools[i].Name : i \in 1 .. Len(tools)} = RegisteredNames
              /\ Len(tools) = Cardinality(RegisteredNames)
              /\ \A i, j \in 1 .. Len(tools) : tools[i].Name = tools[j].Name => i = j

\* C7 witness: a tools/list answered after another line, its descriptors in
\* another order than the enumeration's.
C7_Witness ==
    /\ Answered /\ MethodOf(cur) = MethodListTools
    /\ nread > 1 /\ Len(output) > 1
    /\ lastOut.result.tools[1].Name # KeySeq(RegisteredNames)[1]

\* The names of the reference configuration.
ExpectedToolNames ==
    {"list_challenges", "start_challenge", "submit_challenge_flag", "list_machines",
     "start_machine", "get_machine_ip", "submit_user_flag", "submit_root_flag",
     "get_user_profile", "get_user_progress", "search_content", "get_server_status"}

\* C8: the registry holds exactly the 12 tools of the reference
\* configuration, their names pairwise distinct, and the result of
\* tools/list is an array of length 12.
C8_TwelveDistinctTools ==
    /\ DOMAIN registry = ExpectedToolNames
    /\ Cardinality(DOMAIN registry) = 12
    /\ \A i, j \in 1 .. Len(StaticTools) :
         Name(StaticTools[i]) = Name(StaticTools[j]) => i = j
    /\ \A n \in DOMAIN registry : Name(registry[n]) = n
    /\ (Answered /\ MethodOf(cur) = MethodListTools) => Len(lastOut.result.tools) = 12

\* C8 witness: a tools/list answered with 12 descriptors.
C8_Witness ==
    /\ Answered /\ MethodOf(cur) = MethodListTools
    /\ Len(lastOut.result.tools) = 12

\* C9: an initialize whose params decode is answered with a result, whatever
\* protocol version it declares: the server's version, tool support without
\* list-changed notifications, the static server name and version.
C9_InitializeSucceeds ==
    (Answered /\ MethodOf(cur) = MethodInitialize /\ ParamsDecode(cur)) =>
        /\ IsResultRecord(lastOut)
        /\ lastOut.result.kind = "InitializeResponse"
        /\ lastOut.result.ProtocolVersion = "2024-11-05"
        /\ lastOut.result.Capabilities.Tools.set
        /\ ~lastOut.result.Capabilities.Tools.ListChanged
        /\ lastOut.result.ServerInfo = [Name |-> "htb-mcp-server", Version |-> "1.0.0"]

\* C9 witness: an initialize declaring another version has been answered.
C9_Witness ==
    /\ Answered /\ MethodOf(cur) = MethodInitialize /\ ParamsDecode(cur)
    /\ cur.params.protocolVersion = JStr("2023-01-01")
    /\ IsResultRecord(lastOut)

\* The startup probe failed: a transport error, an unauthorized outcome or
\* a status other than 200.
ProbeFailed ==
    /\ health # NoReply
    /\ (health.kind = "transport" \/ health.status # 200)

\* C10: when the startup probe fails the server never is Running: the read
\* loop is not started, no line is read, no record is written, and the
\* process has ended with a fatal error.
C10_FailedProbeIsFatal ==
    ProbeFailed =>
        /\ state = "Fatal"
        /\ loop = "notStarted"
        /\ nread = 0
        /\ output = <<>>
        /\ lastOut = NoRecord

\* C10 witness: the probe was answered 503 and the process has ended.
C10_Witness == state = "Fatal" /\ health.kind = "http" /\ health.status = 503

\* C11: records are written in the order their lines were read: the stream
\* never holds a record of a later line before a record of an earlier one,
\* no record of a line is written before the line is handled, and every
\* record of a line is written before the next line is read.
C11_WriteOrderIsReadOrder ==
    /\ \A i, j \in 1 .. Len(output) : i < j => output[i] <= output[j]
    /\ \A i \in 1 .. Len(output) : output[i] <= nread
    /\ ~handled => \A i \in 1 .. Len(output) : output[i] < nread

\* C11 witness: two lines were answered, the first one first.
C11_Witness == handled /\ output = <<1, 2>>

\* The records written for line n.
RecordsOf(n) == {i \in 1 .. Len(output) : output[i] = n}

\* C12: once handleMessage has returned for a line, the stream holds exactly
\* one record for it, a JSON-RPC 2.0 message; before that, and for a line
\* that is skipped, it holds none.
C12_OneRecordPerLine ==
    /\ handled =>
         /\ Cardinality(RecordsOf(nread)) = 1
         /\ lastOut # NoRecord
         /\ lastOut.jsonrpc = JStr("2.0")
    /\ ~handled => RecordsOf(nread) = {}
    /\ Len(output) <= nread

\* C12 witness: the second of two handled lines, a line that is the JSON
\* value null, has its record.
C12_Witness == handled /\ nread = 2 /\ Len(output) = 2 /\ cur.k = "null"

\* C15: the error object of every record written has a negative code, one
\* of the five of the enumeration.
C15_ErrorCodesFromTheEnumeration ==
    lastOut.error.set =>
        /\ lastOut.error.Code < 0
        /\ lastOut.error.Code \in {-32700, -32600, -32601, -32602, -32603}

\* C15 witness: an invalid-params error has been written.
C15_Witness == handled /\ lastOut.error.set /\ lastOut.error.Code = -32602

\* Which members of a message are populated.
HasId(msg) == msg.ID # GoNil
HasMethod(msg) == msg.Method # ""
HasParams(msg) == msg.Params # NilParams
HasResult(msg) == msg.Result # NilResult
HasError(msg) == msg.Error.set

\* C13: whatever the arguments, a constructor returns a message of version
\* 2.0 in its role: a request or a notification has its method (and the
\* params given) and neither result nor error, a notification has no id, a
\* response has its result and neither error nor method, an error response
\* has its error with the code, message and data given and neither result
\* nor method.
C13_ConstructorsKeepTheRole ==
    (lab.op \in Constructors /\ lab.done) =>
        /\ lab.out.JSONRPCVersion = "2.0"
        /\ lab.op \in {"NewRequest", "NewNotification"} =>
             /\ HasMethod(lab.out) /\ lab.out.Method = lab.in.method
             /\ lab.out.Params = lab.in.params
             /\ ~HasResult(lab.out) /\ ~HasError(lab.out)
        /\ lab.op = "NewNotification" => ~HasId(lab.out)
        /\ lab.op = "NewResponse" =>
             /\ HasResult(lab.out) /\ lab.out.Result = lab.in.result
             /\ ~HasError(lab.out) /\ ~HasMethod(lab.out)
        /\ lab.op = "NewErrorResponse" =>
             /\ HasError(lab.out)
             /\ lab.out.Error.Code = lab.in.code
             /\ lab.out.Error.Message = lab.in.message
             /\ lab.out.Error.Data = lab.in.data
             /\ ~HasResult(lab.out) /\ ~HasMethod(lab.out)

\* C13, the part the code keeps: every member is the argument given for it
\* and every other member is empty, so the role holds whenever the method
\* given is not empty and the result given is not nil.
C13_MembersAreTheArguments ==
    (lab.op \in Constructors /\ lab.done) =>
        /\ lab.out.JSONRPCVersion = "2.0"
        /\ lab.out.ID = lab.in.id
        /\ lab.out.Method = lab.in.method
        /\ lab.out.Params = lab.in.params
        /\ lab.out.Result = lab.in.result
        /\ ~(HasResult(lab.out) /\ HasError(lab.out))
        /\ HasError(lab.out) <=> lab.op = "NewErrorResponse"
        /\ (lab.in.method # "" /\ lab.in.result # NilResult /\ lab.op # "NewErrorResponse")
             => (HasMethod(lab.out) <=> lab.op \in {"NewRequest", "NewNotification"})
                /\ (HasResult(lab.out) <=> lab.op = "NewResponse")

\* C14: a constructed message that is encoded and decoded again comes back
\* with the same version, the same method and the same members populated
\* among id, params, result and error; a member that is not populated is
\* left out of the encoding and none is written as null.
C14_RoundTripKeepsThePattern ==
    (lab.op \in Constructors /\ lab.decoded) =>
        /\ ~lab.back.err
        /\ lab.back.msg.JSONRPCVersion = lab.out.JSONRPCVersion
        /\ lab.back.msg.Method = lab.out.Method
        /\ HasId(lab.back.msg) <=> HasId(lab.out)
        /\ HasParams(lab.back.msg) <=> HasParams(lab.out)
        /\ HasResult(lab.back.msg) <=> HasResult(lab.out)
        /\ HasError(lab.back.msg) <=> HasError(lab.out)
        /\ ~HasId(lab.out) => lab.wire.id = JAbsent
        /\ ~HasParams(lab.out) => lab.wire.params.shape = "absent"
        /\ ~HasResult(lab.out) => lab.wire.result = NilResult
        /\ lab.wire.id.t # "null"
        /\ lab.wire.params.shape # "null"
        /\ lab.wire.result.kind # "null"

\* C14, the part the code keeps: version and method always come back, and
\* so does the pattern when no argument is a value that encodes as null.
C14_RoundTripOfEncodableMembers ==
    (lab.op \in Constructors /\ lab.decoded) =>
        /\ ~lab.back.err
        /\ lab.back.msg.JSONRPCVersion = lab.out.JSONRPCVersion
        /\ lab.back.msg.Method = lab.out.Method
        /\ HasId(lab.back.msg) <=> HasId(lab.out)
        /\ HasError(lab.back.msg) <=> HasError(lab.out)
        /\ lab.in.params.shape # "null" => (HasParams(lab.back.msg) <=> HasParams(lab.out))
        /\ lab.in.result.kind # "null" => (HasResult(lab.back.msg) <=> HasResult(lab.out))

\* C16: RegisterTool puts the tool under its name: afterwards the name
\* resolves to the tool given, also when the name was registered before,
\* every other entry is as it was, and the list holds one descriptor of
\* that name.
C16_LastRegistrationWins ==
    (lab.op = "RegisterTool" /\ lab.done) =>
        LET r == lab.in.r
            tool == lab.in.tool
            after == lab.out
        IN /\ DOMAIN after = DOMAIN r \cup {Name(tool)}
           /\ GetTool(after, Name(tool)) = [tool |-> tool, exists |-> TRUE]
           /\ \A n \in DOMAIN r : n # Name(tool) => after[n] = r[n]
           /\ \A order \in MapOrders(after) :
                Cardinality({i \in DOMAIN GetTools(after, order) :
                               GetTools(after, order)[i].Name = Name(tool)}) = 1

\* C16 witness: a tool was registered under a name that another tool held.
C16_Witness ==
    /\ lab.op = "RegisterTool" /\ lab.done
    /\ Name(lab.in.tool) \in DOMAIN lab.in.r
    /\ lab.in.r[Name(lab.in.tool)] # lab.in.tool
    /\ Cardinality(DOMAIN lab.in.r) > 1

\* C17: ExecuteTool finds the tool under exactly the name given: a name
\* that is not a key fails with an error naming it and reaches no tool and
\* no backend; a name that is a key yields what that tool's Execute yields
\* on the same arguments, its result or its error, and the one request of
\* that call at most.
C17_ExecuteToolForwards ==
    (lab.op = "ExecuteTool" /\ lab.done) =>
        LET r == lab.in.r
            name == lab.in.name
        IN /\ name \notin DOMAIN r =>
                /\ lab.out.err
                /\ lab.out.text = <<"tool not found: ", name>>
                /\ lab.out.resp = NilResult
                /\ lab.out.reqs = <<>>
           /\ name \in DOMAIN r =>
                /\ lab.out = Execute(r[name], lab.in.args, lab.in.reply, lab.in.uptime)
                /\ Len(lab.out.reqs) <= 1

\* C17 witness: a name that differs from a key by its case only was not
\* found.
C17_Witness ==
    /\ lab.op = "ExecuteTool" /\ lab.done
    /\ lab.in.name = "List_Challenges" /\ "list_challenges" \in DOMAIN lab.in.r
    /\ lab.out.err

\* C18: CreateJSONContent of a value that has an encoding is a text block
\* with the indented encoding and the JSON mime type; of a value that has
\* none it is an error, the tool that serializes the value fails and the
\* answer to the call has isError set and one text block, never a result
\* with an empty block.
C18_SerializationFailurePropagates ==
    (lab.op = "CreateJSONContent" /\ lab.done) =>
        IF lab.in.data # Unserializable
        THEN /\ ~lab.out.content.err
             /\ lab.out.content.content.Type = "text"
             /\ lab.out.content.content.Text = MarshalIndent(lab.in.data).text
             /\ lab.out.content.content.MimeType = "application/json"
             /\ ~lab.out.tool.err
             /\ lab.out.response = CallToolResponse(<<lab.out.content.content>>, FALSE)
        ELSE /\ lab.out.content.err
             /\ lab.out.tool.err
             /\ lab.out.tool.resp = NilResult
             /\ lab.out.response.IsError
             /\ Len(lab.out.response.Content) = 1
             /\ lab.out.response.Content[1].Type = "text"
             /\ lab.out.response.Content[1].Text # <<>>

\* C18 witness: a value without encoding was given.
C18_Witness ==
    /\ lab.op = "CreateJSONContent" /\ lab.done
    /\ lab.in.data = Unserializable /\ lab.out.content.err

\* The token has three parts separated by dots: two of its characters are
\* dots.
ThreeParts(token) == Cardinality({i \in DOMAIN token : token[i] = "."}) = 2

\* C19: Load fails, with no configuration, exactly when HTB_TOKEN is unset
\* or empty or has not three parts; validateHTBToken rejects exactly the
\* tokens that have not three parts, the empty one included.
C19_LoadWantsAThreePartToken ==
    /\ (lab.op = "Load" /\ lab.done) =>
         /\ lab.out.err <=>
              \/ ~lab.in.HTB_TOKEN.set
              \/ lab.in.HTB_TOKEN.token = <<>>
              \/ ~ThreeParts(lab.in.HTB_TOKEN.token)
         /\ lab.out.err => lab.out.cfg = NilConfig
         /\ ~lab.out.err =>
              /\ lab.out.cfg # NilConfig
              /\ lab.out.cfg.HTBToken = lab.in.HTB_TOKEN.token
    /\ (lab.op = "validateHTBToken" /\ lab.done) =>
         (lab.out.err <=> ~ThreeParts(lab.in))

\* C19 witness: a token with three dots was refused by Load.
C19_Witness ==
    /\ lab.op = "Load" /\ lab.done /\ lab.out.err
    /\ lab.in.HTB_TOKEN.token = <<"a", ".", ".", ".">>

\* The value conforms to a property of the schema: it has the property's
\* type and, when the property has an enum, it is one of its values.
ValueConforms(j, property) ==
    /\ property.Type = "string" => j.t = "str"
    /\ property.Type = "integer" => j.t = "num"
    /\ (property.Enum # <<>> /\ j.t = "str") =>
         \E i \in 1 .. Len(property.Enum) : property.Enum[i] = j.s

\* The arguments conform to the schema: every required property is there
\* and every property that is there conforms.
Conforms(arguments, schema) ==
    /\ \A i \in 1 .. Len(schema.Required) :
         /\ arguments.t = "obj"
         /\ arguments.m[schema.Required[i]].t # "absent"
    /\ arguments.t = "obj" =>
         \A k \in ArgKeys \cap DOMAIN schema.Properties :
            arguments.m[k].t # "absent" => ValueConforms(arguments.m[k], schema.Properties[k])

\* C20: a tools/call whose arguments do not conform to the input schema of
\* the tool is answered as a failure of the tool and no backend request is
\* made for it.
C20_ArgumentsValidatedBeforeTheBackend ==
    (Answered /\ MethodOf(cur) = MethodCallTool /\ ParamsDecode(cur)
       /\ StringField(cur.params.name) \in DOMAIN registry
       /\ ~Conforms(cur.params.arguments,
                    Schema(registry[StringField(cur.params.name)]))) =>
        /\ invocation = "error"
        /\ lastOut.result.IsError
        /\ requests = <<>>

\* C20, the part the code keeps: a call that lacks a required argument, or
\* gives it with another type, is a failure of the tool and reaches no
\* backend.
C20_RequiredArgumentsAreChecked ==
    (Answered /\ MethodOf(cur) = MethodCallTool /\ ParamsDecode(cur)
       /\ StringField(cur.params.name) \in DOMAIN registry) =>
        LET schema == Schema(registry[StringField(cur.params.name)])
            arguments == cur.params.arguments
        IN (\E i \in 1 .. Len(schema.Required) :
              \/ arguments.t # "obj"
              \/ ~ValueConforms(arguments.m[schema.Required[i]],
                                [schema.Properties[schema.Required[i]] EXCEPT !.Enum = <<>>])
              \/ arguments.m[schema.Required[i]].t = "absent")
           => /\ invocation = "error"
              /\ lastOut.result.IsError
              /\ requests = <<>>

-----------------------------------------------------------------------------
(* The scheduling of the read loop.                                        *)

\* A tools/call has been dispatched and has not returned.
Executing == Alive /\ loop = "handle" /\ MethodOf(cur) = MethodCallTool

\* C21: two tools/call requests received one after the other can both be
\* executing at the same time: while the first is executing, the loop can
\* receive the next line.
C21_NextLineReceivedWhileExecuting ==
    (Executing /\ nread < MaxLines) => ENABLED ScanLine

\* The state of the lifecycle a state of the process stands for: a process
\* ended by log.Fatalf never left Uninitialized, a process that has ended
\* after Wait stays in Shutting-down.
Lifecycle(s) ==
    CASE s \in {"Uninitialized", "Fatal"} -> "Uninitialized"
      [] s = "Running" -> "Running"
      [] s \in {"ShuttingDown", "Exited"} -> "Shutting-down"

\* The step moves the lifecycle as the state machine allows: into Running
\* from Uninitialized only, after a probe that succeeded; into
\* Shutting-down from Running only, by the signal; nowhere else.
LifecycleStep ==
    /\ Lifecycle(state') # Lifecycle(state)
         => \/ /\ Lifecycle(state) = "Uninitialized"
               /\ Lifecycle(state') = "Running"
               /\ ~HealthCheck(health').err
            \/ /\ Lifecycle(state) = "Running"
               /\ Lifecycle(state') = "Shutting-down"
               /\ Wait
    /\ Lifecycle(state) = "Shutting-down" => Lifecycle(state') = "Shutting-down"

\* The step reads a line or hands one to its handler.
ProcessesALine == nread' # nread \/ (~handled /\ handled')

\* C22: the lifecycle only moves Uninitialized -> Running -> Shutting-down;
\* Running is entered at most once and only after a successful health
\* check, Shutting-down only on SIGINT or SIGTERM; Shutting-down is
\* terminal, and once it is reached no further line is processed.
C22_LifecycleAndNoLineAfterShutdown ==
    [][/\ LifecycleStep
       /\ Lifecycle(state) = "Shutting-down" => ~ProcessesALine]_vars

\* C22, what the code keeps: the moves of the lifecycle themselves.
C22_LifecycleMoves == [][LifecycleStep]_vars

C24_BlankLineSkipped ==
    (nread > 0 /\ cur.k = "blank")
        => /\ loop \in {"scan", "eof"}
           /\ ~handled
           /\ lastOut = NoRecord
           /\ RecordsOf(nread) = {}
           /\ invocation = "none"
           /\ invoked = <<>>
           /\ requests = <<>>
           /\ (loop = "scan" /\ Alive /\ nread < MaxLines) => ENABLED ScanLine

\* A blank line was read after a line that was answered.
C24_Witness == nread = 2 /\ cur.k = "blank" /\ output = <<1>> /\ loop = "scan"

\* C25: every message the server writes has the jsonrpc member "2.0", has
\* no method member, and has exactly one of the members result and error.
C25_WrittenMessagesAreResponses ==
    lastOut # NoRecord
        => /\ lastOut.jsonrpc = JStr("2.0")
           /\ lastOut.method = JAbsent
           /\ (lastOut.result # NilResult) # lastOut.error.set

\* The second line, a tools/call, has been answered with an error after
\* the first line was answered.
C25_Witness ==
    /\ nread = 2
    /\ Cardinality(RecordsOf(1)) = 1
    /\ handled
    /\ lastOut # NoRecord
    /\ lastOut.error.set
    /\ MethodOf(cur) = MethodCallTool

\* C26: the registry is the one NewRegistry built and no step changes it,
\* whatever lines are handled.
C26_RegistryNeverMutated ==
    [][registry = NewRegistry /\ registry' = registry]_vars

\* Two lines have been handled, the second a tools/call that ran a tool.
C26_Witness ==
    /\ nread = 2
    /\ Cardinality(RecordsOf(1)) = 1
    /\ handled
    /\ invoked # <<>>
    /\ registry = NewRegistry

\* Every name the schema requires is one of the properties it declares.
RequiredAreDeclared(schema) ==
    \A i \in 1 .. Len(schema.Required) : schema.Required[i] \in DOMAIN schema.Properties

\* C27: for each of the 12 registered tools every name in the Required of
\* its schema is a key of the schema's Properties, in the registry and in
\* the descriptors a tools/list result carries.
C27_RequiredNamesAreProperties ==
    /\ Cardinality(DOMAIN registry) = 12
    /\ \A n \in DOMAIN registry : RequiredAreDeclared(Schema(registry[n]))
    /\ (Answered /\ MethodOf(cur) = MethodListTools) =>
         \A i \in 1 .. Len(lastOut.result.tools) :
            RequiredAreDeclared(lastOut.result.tools[i].InputSchema)

\* A tools/list was answered with the descriptors of 12 tools, one of them
\* with three required names.
C27_Witness ==
    /\ Answered /\ MethodOf(cur) = MethodListTools
    /\ Len(lastOut.result.tools) = 12
    /\ \E i \in 1 .. 12 : Len(lastOut.result.tools[i].InputSchema.Required) = 3

-----------------------------------------------------------------------------
(* The backend call and the output stream.                                 *)

\* The call has returned to the loop, which is at scanner.Scan() again, or
\* the process has ended.
BackAtScan == (~pending /\ handled /\ loop = "scan") \/ ~Alive

\* C28: whatever request timeout the configuration accepts, a tools/call
\* that was dispatched to the backend eventually returns, with the
\* backend's answer or a timeout failure, and the loop reads the next line.
C28_DispatchedCallReturns == pending ~> BackAtScan

\* C28, what the code keeps: a call made with a timeout above zero has the
\* timer armed that ends it, until it has returned.
C28_PositiveTimeoutIsArmed ==
    (pending /\ Alive /\ httpClient.Timeout > 0) => ENABLED DoTimesOut

\* C29: no error is dropped silently: a line the scanner could not take
\* is logged, and every line handed to a handler, whichever failure it
\* met on the way (a decode failure, an unknown method, invalid params, a
\* tool failure, a response that could not be written), ends in a record
\* written or in a logged message.
C29_NoErrorSilentlyDropped ==
    /\ loop = "scanError" => logged
    /\ handled => (lastOut # NoRecord \/ logged)

\* C29, what the code keeps: a tools/call that reached the registry ends in
\* a record written or in a logged message, and so does every line while
\* the stream accepts the writes.
C29_ReturnedErrorsAreLogged ==
    /\ loop = "scanError" => logged
    /\ (handled /\ invocation # "none") => (lastOut # NoRecord \/ logged)
    /\ (handled /\ writable) => lastOut # NoRecord

\* The backend failed: the transport failed, or the response has status
\* 401, 302 or 5xx.
BackendFailed(reply) ==
    \/ reply.kind = "transport"
    \/ reply.kind = "http" /\ (reply.status \in {401, 302} \/ reply.status >= 500)

\* C30: a tools/call whose backend request met a backend failure is
\* answered as a tool failure, a result with isError true, and never as a
\* success result built from the body of the failed response.
C30_BackendFailureFailsTheCall ==
    (Answered /\ MethodOf(cur) = MethodCallTool /\ BackendFailed(replied))
        => /\ invocation = "error"
           /\ IsResultRecord(lastOut)
           /\ lastOut.result.IsError

\* C30, what the code keeps: a transport failure, a 401 and a 302 with a
\* Location header fail the call of every tool but get_server_status, and
\* so does any response whose body is not a JSON object.
C30_RequestErrorsFailTheCall ==
    (/\ Answered /\ MethodOf(cur) = MethodCallTool
     /\ invoked # <<>> /\ invoked[1].type # "GetServerStatus"
     /\ \/ Request(replied).err
        \/ replied.kind = "http" /\ replied.body # "object")
        => /\ invocation = "error"
           /\ IsResultRecord(lastOut)
           /\ lastOut.result.IsError

-----------------------------------------------------------------------------
(* What a call depends on.                                                 *)

\* The tools/call names a registered tool and gives each argument the tool
\* insists on, with the type it asserts.
PassesToolChecks(line) ==
    /\ MethodOf(line) = MethodCallTool
    /\ ParamsDecode(line)
    /\ StringField(line.params.name) \in DOMAIN registry
    /\ LET schema == Schema(registry[StringField(line.params.name)])
           arguments == line.params.arguments
       IN \A i \in 1 .. Len(schema.Required) :
             /\ arguments.t = "obj"
             /\ arguments.m[schema.Required[i]].t # "absent"
             /\ ValueConforms(arguments.m[schema.Required[i]],
                              [schema.Properties[schema.Required[i]] EXCEPT !.Enum = <<>>])

C32_NothingServedBeforeInitialize ==
    (Answered /\ nread = 1 /\ MethodOf(cur) \in {MethodListTools, MethodCallTool})
        => /\ ~IsResultRecord(lastOut)
           /\ invoked = <<>>
           /\ requests = <<>>

\* Every line the scanner took before the end of the input was skipped as
\* blank or handled to its end.
LinesAnswered == (nread > 0 /\ cur.k # "blank") => (handled /\ lastOut # NoRecord)

\* The process is shutting down or has ended.
ShutDown == state \in {"ShuttingDown", "Exited"}

\* C33: the end of the input is a clean shutdown: the read returns, every
\* line received has been answered, the loop ends, and the server shuts
\* down though no termination signal arrives.
C33_EndOfInputShutsDown ==
    /\ [](loop = "eof" => LinesAnswered)
    /\ (loop = "eof") ~> ShutDown

\* C33, what the code keeps: at the end of the input every line received
\* has been answered and the loop has ended; no line is read after it.
C33_EndOfInputEndsTheLoop ==
    /\ [](loop = "eof" => LinesAnswered)
    /\ [][loop = "eof" => (loop' = "eof" /\ nread' = nread /\ output' = output)]_vars

\* Two records are the same response, the order of the descriptors of a
\* tools/list result apart.
SameResponse(a, b) ==
    IF a.result.kind = "map" /\ b.result.kind = "map"
    THEN /\ [a EXCEPT !.result = NilResult] = [b EXCEPT !.result = NilResult]
         /\ Len(a.result.tools) = Len(b.result.tools)
         /\ {a.result.tools[i] : i \in 1 .. Len(a.result.tools)}
              = {b.result.tools[i] : i \in 1 .. Len(b.result.tools)}
    ELSE a = b

\* The responses another run emits for the line: a server just built, that
\* handled nothing before, given the same line and the same backend answer,
\* whatever its clock and the order of its map.
OtherRuns(line, reply) ==
    {handleMessage(NewRegistry, line, reply, order, uptime).out[1] :
        order \in OrdersFor(NewRegistry, line), uptime \in UptimesFor(line)}

\* C34: the response to a line depends only on the line and on the
\* backend's answers while it is handled: any run given the same line and
\* the same answers emits the same response, whatever was handled before.
C34_ResponseDependsOnLineAndAnswers ==
    Answered => \A other \in OtherRuns(cur, replied) : SameResponse(lastOut, other)

\* C34, what the code keeps: the same, for every line but a call of
\* get_server_status, whose result carries the uptime and the time of day.
C34_StatelessButForTheClock ==
    (Answered /\ UptimesFor(cur) # Uptimes)
        => \A other \in OtherRuns(cur, replied) : SameResponse(lastOut, other)

-----------------------------------------------------------------------------
(* Notifications.                                                          *)

\* The line decodes as a message that has no id member.
IsNotification(line) == DecodesAsMessage(line) /\ line.id = JAbsent

\* The records written for the line read last.
RecordsForCur == {i \in 1 .. Len(output) : output[i] = nread}

\* What the method of the line calls for: a result from a served method
\* whose params decode, -32602 from a served method whose params do not,
\* -32601 from every other method.
AccordingToMethod(line, rec) ==
    IF MethodOf(line) \notin ServedMethods
    THEN IsErrorRecord(rec, ErrorCodeMethodNotFound)
    ELSE IF MethodOf(line) = MethodListTools \/ ParamsDecode(line)
    THEN IsResultRecord(rec)
    ELSE IsErrorRecord(rec, ErrorCodeInvalidParams)

\* The records the same line would get if it carried the id 1.
AsRequest(line, reply) ==
    {handleMessage(registry, [line EXCEPT !.id = JNum(0, 1)], reply, order, uptime).out[1] :
       order \in OrdersFor(registry, line), uptime \in UptimesFor(line)}

\* C35: a line that decodes and has no id member is handled like a request:
\* exactly one record is written for it, a result or an error according to
\* its method, the record a request of the same content gets but for the
\* id, and the record has no id member.
C35_NotificationAnsweredLikeARequest ==
    (handled /\ IsNotification(cur)) =>
        /\ Cardinality(RecordsForCur) = 1
        /\ AccordingToMethod(cur, lastOut)
        /\ lastOut.id = JAbsent
        /\ cur.k = "object" =>
             \E rec \in AsRequest(cur, replied) :
                 /\ rec.id = JNum(0, 1)
                 /\ lastOut = [rec EXCEPT !.id = JAbsent]

C35_Witness ==
    /\ handled
    /\ IsNotification(cur)
    /\ MethodOf(cur) = "notifications/initialized"
    /\ Cardinality(RecordsForCur) = 1
    /\ IsErrorRecord(lastOut, ErrorCodeMethodNotFound)
    /\ lastOut.id = JAbsent

-----------------------------------------------------------------------------
(* The error codes in use.                                                 *)

\* The codes handleMessage and its handlers pass to sendErrorResponse.
CodesInUse == {ErrorCodeParseError, ErrorCodeMethodNotFound, ErrorCodeInvalidParams}

\* The line decodes and its jsonrpc member is missing or is not "2.0".
OtherVersion(line) == DecodesAsMessage(line) /\ line.jsonrpc # JStr("2.0")

\* C36: the only error codes written are -32700, -32601 and -32602 (never
\* -32600, never -32603), and a line that decodes with a jsonrpc member
\* that is missing or not "2.0" is dispatched by its method like any other:
\* the record for it is the result or the error its method calls for.
C36_OnlyThreeCodesAndNoVersionCheck ==
    handled =>
        /\ lastOut.error.set => lastOut.error.Code \in CodesInUse
        /\ ~IsErrorRecord(lastOut, ErrorCodeInvalidRequest)
        /\ ~IsErrorRecord(lastOut, ErrorCodeInternalError)
        /\ OtherVersion(cur) => AccordingToMethod(cur, lastOut)

C36_Witness ==
    /\ handled
    /\ OtherVersion(cur)
    /\ cur.jsonrpc = JStr("1.0")
    /\ MethodOf(cur) = MethodListTools
    /\ IsResultRecord(lastOut)

-----------------------------------------------------------------------------
(* The arguments a tool requires.                                          *)

\* The names of the registered tools whose schema has required properties.
ToolsWithRequired(r) == {n \in DOMAIN r : Schema(r[n]).Required # <<>>}

\* The argument, as decoded into the map the tool receives, has the Go type
\* the property's JSON type decodes to.
HasDeclaredType(v, property) ==
    /\ property.Type = "string" => v.t = "string"
    /\ property.Type = "integer" => v.t = "float64"

\* Some required property of the schema is missing from the arguments
\* (missing and null both read as nil) or has another type.
LacksRequired(args, schema) ==
    \E i \in 1 .. Len(schema.Required) :
        ~HasDeclaredType(args[schema.Required[i]], schema.Properties[schema.Required[i]])

\* C37: the tools with required properties are start_challenge,
\* submit_challenge_flag, start_machine, submit_user_flag, submit_root_flag
\* and search_content, and a call of one of them that omits a required
\* argument or gives it with the wrong type fails in the tool: ExecuteTool
\* returns an error and no backend request has been made.
C37_RequiredArgumentsCheckedBeforeTheBackend ==
    /\ ToolsWithRequired(NewRegistry) =
         {"start_challenge", "submit_challenge_flag", "start_machine",
          "submit_user_flag", "submit_root_flag", "search_content"}
    /\ (lab.op = "ExecuteTool" /\ lab.done /\ lab.in.name \in ToolsWithRequired(lab.in.r)
          /\ LacksRequired(lab.in.args, Schema(lab.in.r[lab.in.name]))) =>
         /\ lab.out.err
         /\ lab.out.reqs = <<>>

C37_Witness ==
    /\ lab.op = "ExecuteTool" /\ lab.done
    /\ lab.in.r = NewRegistry
    /\ lab.in.name = "submit_user_flag"
    /\ lab.in.args["machine_id"].t = "float64"
    /\ lab.in.args["flag"].t = "float64"
    /\ lab.in.reply = HttpReply(200, FALSE, "object", TRUE)
    /\ lab.out.err
    /\ lab.out.reqs = <<>>

-----------------------------------------------------------------------------
(* The status tool.                                                        *)

\* The line is a tools/call of get_server_status whose params decode.
IsStatusCall(line) ==
    /\ MethodOf(line) = MethodCallTool
    /\ ParamsDecode(line)
    /\ StringField(line.params.name) = "get_server_status"

\* handleMessage returns for a call of get_server_status.
StatusCallReturns == loop = "handle" /\ loop' = "scan" /\ IsStatusCall(cur)

\* The record reports a running server whose backend is unhealthy for the
\* reason the probe gave.
ReportsUnhealthy(rec, reply) ==
    /\ IsResultRecord(rec)
    /\ rec.result.kind = "CallToolResponse"
    /\ ~rec.result.IsError
    /\ Len(rec.result.Content) = 1
    /\ \E uptime \in Uptimes :
         rec.result.Content[1].Text =
            <<"json:", ServerStatus("running",
                                    "unhealthy: " \o Sprint(HealthCheck(reply).text),
                                    uptime)>>

\* C38: a call of get_server_status whose probe of the backend fails (the
\* backend unreachable, or answering with a status other than 200) does
\* not fail: the registry returns a result, the record written is a result
\* that is no error and reports status "running" with htb_api_status
\* "unhealthy: ..." and the probe's error, and the state of the server is
\* what it was.
C38_StatusNeverFailsOnTheBackend ==
    [][(StatusCallReturns /\ HealthCheck(replied').err) =>
          /\ invocation' = "result"
          /\ Len(requests') = 1
          /\ ReportsUnhealthy(lastOut', replied')
          /\ state' = state]_vars

C38_Witness ==
    /\ handled /\ IsStatusCall(cur)
    /\ replied = TransportFailure
    /\ invocation = "result"
    /\ state = "Running"
    /\ ~lastOut.result.IsError
    /\ lastOut.result.Content[1].Text =
         <<"json:", "status:running,htb_api_status:unhealthy: HTB API health check failed: failed to execute request: transport error,uptime:3s">>

-----------------------------------------------------------------------------
(* The shape of a tools/call result.                                       *)

\* C39: the record written for a tools/call, when it carries a result, is a
\* CallToolResponse with exactly one content block, of type "text", and its
\* IsError is true exactly when the registry returned an error.
C39_OneTextBlockAndIsErrorIffFailed ==
    (Answered /\ MethodOf(cur) = MethodCallTool /\ IsResultRecord(lastOut)) =>
        /\ lastOut.result.kind = "CallToolResponse"
        /\ Len(lastOut.result.Content) = 1
        /\ lastOut.result.Content[1].Type = "text"
        /\ lastOut.result.IsError <=> invocation = "error"
        /\ invocation \in {"result", "error"}

C39_Witness ==
    /\ Answered /\ MethodOf(cur) = MethodCallTool
    /\ IsResultRecord(lastOut)
    /\ invocation = "error"
    /\ Len(requests) = 1
    /\ lastOut.result.IsError
    /\ Len(lastOut.result.Content) = 1
    /\ lastOut.result.Content[1].Type = "text"

====
